---- MODULE Spec2Model ----
(***************************************************************************)
(* Model of the SerenQA serendipity trace (serendipity_trace.rs): the      *)
(* append-only event log, the transitions derived at append time, the      *)
(* running overall serendipity and the provenance hash.                    *)
(*                                                                         *)
(* Conventions.                                                            *)
(*  - A Rust String is a sequence of one-character strings, so that        *)
(*    format!/concatenation and the byte stream fed to the hasher are      *)
(*    modelled by \o.  Enum variants are the TLA+ strings of their names.  *)
(*  - An f64 is an exact rational <<numerator, denominator>> in lowest     *)
(*    terms.  The scores drawn as inputs are dyadic, for which the f64     *)
(*    sums and the division by 2.0 of the code are exact.                  *)
(*  - Option<T> is a sequence of length 0 (None) or 1 (Some).              *)
(*  - Utc::now() reads the variable now, a wall clock in milliseconds; one  *)
(*    call of new or log_event runs within one instant of that clock.      *)
(***************************************************************************)
EXTENDS Integers, Sequences, FiniteSets, TLC

VARIABLES
    now,        \* the wall clock read by Utc::now(), in milliseconds
    traces,     \* the SerendipityTrace values alive in the process, by creation order
    digests,    \* per trace: the digests compute_provenance_hash returned since
                \* the trace's last log_event
    stats,      \* the LanguageAwareContributorStats values the callers hold
    added,      \* per stats value: the arguments of its add_trace calls, in order
    leaderboard,    \* the LanguageAwareLeaderboard
    agent_events,   \* the LanguageAwareAgentEvent slice handed to the memory folder
    returned    \* the last value a query returned, with the receiver it was called on

vars == <<now, traces, digests, stats, added, leaderboard, agent_events, returned>>

\* the state of the contributor ledger and of the memory folder's caller
ledgerVars == <<stats, added, leaderboard, agent_events>>

----------------------------------------------------------------------------
(* Bounds of the model *)

\* events logged to the trace of Spec
MaxEvents == 3

\* events logged to each trace of SpecSystem
MaxSysEvents == 1

\* events logged to each trace of SpecHash
MaxHashEvents == 2

\* events logged to the trace of SpecLang
MaxLangEvents == 9

\* traces created in SpecSystem
MaxTraces == 2

\* the wall clock takes the instants ClockAt(0) .. ClockAt(MaxTick)
MaxTick == 2

----------------------------------------------------------------------------
(* Strings, numbers and their text rendering *)

MillisPerSec == 1000

Digits == <<"0", "1", "2", "3", "4", "5", "6", "7", "8", "9">>

MaxFracDigits == 17

RECURSIVE DecStr(_)
\* format!("{}", n) of a non-negative integer
DecStr(n) ==
    IF n < 10 THEN <<Digits[n + 1]>>
    ELSE DecStr(n \div 10) \o <<Digits[(n % 10) + 1]>>

RECURSIVE GCD(_, _)
GCD(a, b) == IF b = 0 THEN a ELSE GCD(b, a % b)

\* the f64 that is not a number
NaN == <<0, 0>>

IsNaN(x) == x[2] = 0

\* the f64 of value n/d; arithmetic on a NaN gives a NaN
F64(n, d) == IF d = 0 THEN NaN ELSE LET g == GCD(n, d) IN <<n \div g, d \div g>>

F64Add(x, y) == F64(x[1] * y[2] + y[1] * x[2], x[2] * y[2])

F64Div(x, k) == F64(x[1], x[2] * k)

F64Zero == F64(0, 1)

RECURSIVE FracStr(_, _, _)
\* the decimal digits of rem/d after the point
FracStr(rem, d, left) ==
    IF rem = 0 \/ left = 0 THEN <<>>
    ELSE <<Digits[((rem * 10) \div d) + 1]>> \o FracStr((rem * 10) % d, d, left - 1)

\* format!("{}", x) of a non-negative f64: "1", "0.5", "0.875"
F64Str(x) ==
    LET ip == x[1] \div x[2]
        rem == x[1] % x[2]
    IN  IF rem = 0 THEN DecStr(ip)
        ELSE DecStr(ip) \o <<".">> \o FracStr(rem, x[2], MaxFracDigits)

\* Utc::now().timestamp(): whole seconds
Timestamp(t) == t \div MillisPerSec

\* Utc::now().timestamp_millis()
TimestampMillis(t) == t

\* the instants the clock is sampled at: 0 ms, 1 ms, 1000 ms, 1001 ms, 2000 ms, ...
ClockAt(k) == (k \div 2) * MillisPerSec + (k % 2)

ClockValues == {ClockAt(k) : k \in 0..MaxTick}

None == <<>>

Some(x) == <<x>>

----------------------------------------------------------------------------
(* The two enumerations *)

SerendipityStage ==
    {"Exploration", "UnexpectedConnection", "HypothesisFormation",
     "Validation", "Integration", "Publication"}

SerendipityAgent ==
    {"Explorer", "PatternRecognizer", "HypothesisGenerator", "Validator",
     "Synthesizer", "Translator", "MetaOrchestrator"}

----------------------------------------------------------------------------
(* SerendipityTrace *)

\* format!("seren_{}_{}", contributor_id, Utc::now().timestamp())
TraceId(contributor_id, t) ==
    <<"s", "e", "r", "e", "n", "_">> \o contributor_id \o <<"_">> \o DecStr(Timestamp(t))

\* format!("event_{}_{}", self.events.len(), Utc::now().timestamp_millis())
EventId(n, t) ==
    <<"e", "v", "e", "n", "t", "_">> \o DecStr(n) \o <<"_">> \o DecStr(TimestampMillis(t))

\* SerendipityTrace::new
NewTrace(contributor_id, backend, discovery_name, t) ==
    [trace_id |-> TraceId(contributor_id, t),
     contributor_id |-> contributor_id,
     backend |-> backend,
     discovery_name |-> discovery_name,
     events |-> <<>>,
     transitions |-> <<>>,
     languages |-> <<>>,
     overall_serendipity |-> F64Zero,
     created_at |-> t]

Contains(seq, x) == \E i \in 1..Len(seq) : seq[i] = x

RECURSIVE SumSerendipity(_)
SumSerendipity(events) ==
    IF events = <<>> THEN F64Zero
    ELSE F64Add(SumSerendipity(Tail(events)), Head(events).serendipity_score)

\* mutant: the divisor counts one event too many
OverallSerendipityOffByOne(events) ==
    IF events = <<>> THEN F64Zero
    ELSE F64Div(SumSerendipity(events), Len(events) + 1)

\* update_overall_serendipity: the value it stores
OverallSerendipity(events) ==
    IF events = <<>> THEN F64Zero
    ELSE F64Div(SumSerendipity(events), Len(events))

\* mutant: the language is pushed without the contains test
TrackLanguageNoDedup(languages, language) == Append(languages, language)

\* the language tracking of log_event
TrackLanguage(languages, language) ==
    IF ~Contains(languages, language) THEN Append(languages, language)
    ELSE languages

\* mutant: the two agents are taken from the wrong events
MakeTransitionSwapped(prev_event, event_id, stage, agent, language, confidence) ==
    [from_event |-> prev_event.event_id,
     to_event |-> event_id,
     from_agent |-> agent,
     to_agent |-> prev_event.agent,
     transition_score |-> F64Div(F64Add(prev_event.confidence, confidence), 2),
     reason |-> <<prev_event.stage, " -> ", stage>>,
     language_shift |->
        IF prev_event.language # language
        THEN Some(<<prev_event.language, language>>)
        ELSE None]

\* mutant: the language pair is recorded whether or not the language changed
MakeTransitionAlwaysShift(prev_event, event_id, stage, agent, language, confidence) ==
    [from_event |-> prev_event.event_id,
     to_event |-> event_id,
     from_agent |-> prev_event.agent,
     to_agent |-> agent,
     transition_score |-> F64Div(F64Add(prev_event.confidence, confidence), 2),
     reason |-> <<prev_event.stage, " -> ", stage>>,
     language_shift |-> Some(<<prev_event.language, language>>)]

\* the transition log_event derives from the previous event
MakeTransition(prev_event, event_id, stage, agent, language, confidence) ==
    [from_event |-> prev_event.event_id,
     to_event |-> event_id,
     from_agent |-> prev_event.agent,
     to_agent |-> agent,
     transition_score |-> F64Div(F64Add(prev_event.confidence, confidence), 2),
     reason |-> <<prev_event.stage, " -> ", stage>>,
     language_shift |->
        IF prev_event.language # language
        THEN Some(<<prev_event.language, language>>)
        ELSE None]

\* mutant: a transition is derived only from the third event on
PushTransitionOffByOne(trace, event_id, stage, agent, language, confidence) ==
    IF Len(trace.events) > 1
    THEN Append(trace.transitions,
                [from_event |-> trace.events[Len(trace.events)].event_id,
                 to_event |-> event_id,
                 from_agent |-> trace.events[Len(trace.events)].agent,
                 to_agent |-> agent,
                 transition_score |->
                    F64Div(F64Add(trace.events[Len(trace.events)].confidence,
                                  confidence), 2),
                 reason |-> <<trace.events[Len(trace.events)].stage, " -> ", stage>>,
                 language_shift |->
                    IF trace.events[Len(trace.events)].language # language
                    THEN Some(<<trace.events[Len(trace.events)].language, language>>)
                    ELSE None])
    ELSE trace.transitions

\* the transitions of log_event: one more iff there is a previous event
PushTransition(trace, event_id, stage, agent, language, confidence) ==
    IF trace.events # <<>>
    THEN Append(trace.transitions,
                MakeTransition(trace.events[Len(trace.events)], event_id,
                               stage, agent, language, confidence))
    ELSE trace.transitions

\* mutant: the new event is inserted at the front of the log
LogEventOnPrepending(trace, stage, agent, input, output, language, serendipity_score, confidence, t) ==
    LET event_id == EventId(Len(trace.events), t)
        event == [event_id |-> event_id,
                  timestamp |-> t,
                  stage |-> stage,
                  agent |-> agent,
                  input |-> input,
                  output |-> output,
                  language |-> language,
                  serendipity_score |-> serendipity_score,
                  confidence |-> confidence,
                  metadata |-> <<>>]
        events == <<event>> \o trace.events
    IN  [trace EXCEPT
            !.languages = IF ~Contains(trace.languages, language)
                          THEN Append(trace.languages, language)
                          ELSE trace.languages,
            !.events = events,
            !.overall_serendipity = F64Div(SumSerendipity(events), Len(events))]

\* SerendipityTrace::log_event applied to a trace value at instant t
LogEventOn(trace, stage, agent, input, output, language, serendipity_score, confidence, t) ==
    LET event_id == EventId(Len(trace.events), t)
        event == [event_id |-> event_id,
                  timestamp |-> t,
                  stage |-> stage,
                  agent |-> agent,
                  input |-> input,
                  output |-> output,
                  language |-> language,
                  serendipity_score |-> serendipity_score,
                  confidence |-> confidence,
                  metadata |-> <<>>]
        events == Append(trace.events, event)
    IN  [trace EXCEPT
            !.languages = TrackLanguage(trace.languages, language),
            !.transitions = PushTransition(trace, event_id, stage, agent,
                                           language, confidence),
            !.events = events,
            !.overall_serendipity = OverallSerendipity(events)]

----------------------------------------------------------------------------
(* compute_provenance_hash *)

RECURSIVE EventBytesNoLanguage(_)
\* mutant: the event loop leaves the language out
EventBytesNoLanguage(events) ==
    IF events = <<>> THEN <<>>
    ELSE LET event == Head(events)
         IN  event.event_id \o event.input \o event.output
                \o F64Str(event.serendipity_score)
                \o EventBytesNoLanguage(Tail(events))

RECURSIVE EventBytes(_)
\* the bytes the event loop feeds to the hasher
EventBytes(events) ==
    IF events = <<>> THEN <<>>
    ELSE LET event == Head(events)
         IN  event.event_id \o event.input \o event.output \o event.language
                \o F64Str(event.serendipity_score) \o EventBytes(Tail(events))

RECURSIVE TransitionBytes(_)
\* the bytes the transition loop feeds to the hasher
TransitionBytes(transitions) ==
    IF transitions = <<>> THEN <<>>
    ELSE LET transition == Head(transitions)
         IN  transition.from_event \o transition.to_event
                \o F64Str(transition.transition_score)
                \o TransitionBytes(Tail(transitions))

\* mutant: the creation timestamp is hashed with the trace metadata
ProvenanceInputTimed(trace) ==
    trace.trace_id \o trace.contributor_id \o trace.backend \o trace.discovery_name
        \o DecStr(trace.created_at)
        \o EventBytes(trace.events) \o TransitionBytes(trace.transitions)

\* everything hasher.update is given, in order: SHA-256 digests the concatenation
ProvenanceInput(trace) ==
    trace.trace_id \o trace.contributor_id \o trace.backend \o trace.discovery_name
        \o EventBytes(trace.events) \o TransitionBytes(trace.transitions)

\* format!("{:x}", hasher.finalize()): SHA-256 taken as collision-free, so the
\* digest is identified with the byte sequence it was computed from
Sha256Hex(bytes) == <<"sha256", bytes>>

\* SerendipityTrace::compute_provenance_hash
ComputeProvenanceHash(trace) == Sha256Hex(ProvenanceInput(trace))

----------------------------------------------------------------------------
(* The inputs the callers draw *)

EN == <<"e", "n">>

ID == <<"i", "d">>

ES == <<"e", "s">>

StageArgs == {"Exploration", "Validation"}

AgentArgs == {"Explorer", "Translator"}

LanguageArgs == {EN, ID}

ScoreArgs == {F64(1, 2), F64(1, 1)}

ContributorArgs == {<<"a">>, <<"b">>}

InputArgs == {<<"a">>, <<"a", "b">>}

OutputArgs == {<<"b">>, <<"b", "b">>}

Backend == <<"q", "b">>

Discovery == <<"J">>

----------------------------------------------------------------------------
(* Actions *)

\* the wall clock advances
Tick ==
    /\ \E t \in ClockValues : t > now /\ now' = t
    /\ UNCHANGED <<traces, digests, ledgerVars, returned>>

\* let trace = SerendipityTrace::new(...)
New(contributor_id, backend, discovery_name) ==
    /\ traces' = Append(traces, NewTrace(contributor_id, backend, discovery_name, now))
    /\ digests' = Append(digests, {})
    /\ UNCHANGED <<now, ledgerVars, returned>>

\* traces[i].log_event(...); the digests returned for the old content are dropped
LogEvent(i, stage, agent, input, output, language, serendipity_score, confidence) ==
    /\ i \in 1..Len(traces)
    /\ traces' = [traces EXCEPT ![i] =
                    LogEventOn(traces[i], stage, agent, input, output, language,
                               serendipity_score, confidence, now)]
    /\ digests' = [digests EXCEPT ![i] = {}]
    /\ UNCHANGED <<now, ledgerVars, returned>>

\* let hash = traces[i].compute_provenance_hash(): &self, the trace is only read
ComputeHash(i) ==
    /\ i \in 1..Len(traces)
    /\ digests' = [digests EXCEPT ![i] = @ \cup {ComputeProvenanceHash(traces[i])}]
    /\ UNCHANGED <<now, traces, ledgerVars, returned>>

----------------------------------------------------------------------------
(* Spec: one trace, logged to by its single writer *)

\* no contributor statistics, an empty leaderboard, no folder input, no query yet
NoLedger ==
    /\ stats = <<>>
    /\ added = <<>>
    /\ leaderboard = [contributors |-> <<>>, order |-> <<>>]
    /\ agent_events = <<>>
    /\ returned = None

Init ==
    /\ now = ClockAt(0)
    /\ traces = <<NewTrace(<<"a">>, Backend, Discovery, now)>>
    /\ digests = <<{}>>
    /\ NoLedger

\* log_event calls of the exploration stage that vary the two scores
LogScored ==
    \E serendipity_score \in ScoreArgs, confidence \in ScoreArgs :
        /\ Len(traces[1].events) < MaxEvents
        /\ LogEvent(1, "Exploration", "Explorer", <<"q">>, <<"r">>, EN,
                    serendipity_score, confidence)

\* log_event calls of the validation stage that vary the agent and the language
LogStaged ==
    \E agent \in AgentArgs, language \in LanguageArgs :
        /\ Len(traces[1].events) < MaxEvents
        /\ LogEvent(1, "Validation", agent, <<"q">>, <<"r">>, language,
                    F64(1, 1), F64(1, 1))

Hash == ComputeHash(1)

Next ==
    \/ Tick
    \/ LogScored
    \/ LogStaged
    \/ Hash

Spec == Init /\ [][Next]_vars

----------------------------------------------------------------------------
(* SpecSystem: traces created and logged to while the clock runs *)

InitSystem ==
    /\ now = ClockAt(0)
    /\ traces = <<>>
    /\ digests = <<>>
    /\ NoLedger

NewAny ==
    \E contributor_id \in ContributorArgs :
        /\ Len(traces) < MaxTraces
        /\ New(contributor_id, Backend, Discovery)

LogSystem ==
    \E i \in 1..Len(traces), stage \in StageArgs :
        /\ Len(traces[i].events) < MaxSysEvents
        /\ LogEvent(i, stage, "Explorer", <<"q">>, <<"r">>, EN, F64(1, 1), F64(1, 1))

HashAny == \E i \in 1..Len(traces) : ComputeHash(i)

NextSystem ==
    \/ Tick
    \/ NewAny
    \/ LogSystem
    \/ HashAny

SpecSystem == InitSystem /\ [][NextSystem]_vars

----------------------------------------------------------------------------
(* SpecHash: two traces of one contributor, created one millisecond apart  *)
(* in the same second, then logged to within that millisecond and hashed   *)

InitHash ==
    /\ now = ClockAt(1)
    /\ traces = <<NewTrace(<<"a">>, Backend, Discovery, ClockAt(0)),
                  NewTrace(<<"a">>, Backend, Discovery, ClockAt(1))>>
    /\ digests = <<{}, {}>>
    /\ NoLedger

\* log_event calls that vary the input and the output text
LogText ==
    \E i \in 1..Len(traces), input \in InputArgs, output \in OutputArgs :
        /\ Len(traces[i].events) < MaxHashEvents
        /\ LogEvent(i, "Exploration", "Explorer", input, output, EN,
                    F64(1, 1), F64(1, 1))

\* log_event calls in the other language
LogSpanish ==
    \E i \in 1..Len(traces) :
        /\ Len(traces[i].events) < MaxHashEvents
        /\ LogEvent(i, "Exploration", "Explorer", <<"a">>, <<"b">>, ES,
                    F64(1, 1), F64(1, 1))

NextHash ==
    \/ LogText
    \/ LogSpanish
    \/ HashAny

SpecHash == InitHash /\ [][NextHash]_vars

----------------------------------------------------------------------------
(* SpecLang: one trace whose events vary in language only *)

LogLang ==
    \E language \in {EN, ID, ES} :
        /\ Len(traces[1].events) < MaxLangEvents
        /\ LogEvent(1, "Exploration", "Explorer", <<"q">>, <<"r">>, language,
                    F64(1, 1), F64(1, 1))

NextLang == LogLang

SpecLang == Init /\ [][NextLang]_vars

----------------------------------------------------------------------------
(* Properties of the trace log *)

TraceIndices == 1..Len(traces)

\* s is a prefix of t
IsPrefix(s, t) == Len(s) <= Len(t) /\ SubSeq(t, 1, Len(s)) = s

\* the f64 m is the mean of the f64s x and y: 2m = x + y
IsMeanOfTwo(m, x, y) ==
    2 * m[1] * x[2] * y[2] = (x[1] * y[2] + y[1] * x[2]) * m[2]

RECURSIVE ScoreTotal(_, _)
\* the sum of the serendipity scores of events[1..k], as a fraction <<n, d>>
ScoreTotal(events, k) ==
    IF k = 0 THEN <<0, 1>>
    ELSE LET rest == ScoreTotal(events, k - 1)
             x == events[k].serendipity_score
         IN  <<rest[1] * x[2] + x[1] * rest[2], rest[2] * x[2]>>

\* C1: in every reachable state every trace has max(events - 1, 0) transitions:
\* the first log_event adds none, each later one adds exactly one.
C1_TransitionCount ==
    \A i \in TraceIndices :
        Len(traces[i].transitions) =
            IF Len(traces[i].events) = 0 THEN 0 ELSE Len(traces[i].events) - 1

C1_Witness ==
    \E i \in TraceIndices :
        Len(traces[i].events) >= 3 /\ Len(traces[i].transitions) >= 2

\* C2: transition k is derived from events k and k+1 in append order: their
\* event ids, their agents, and the arithmetic mean of their confidences.
C2_TransitionsLinkNeighbours ==
    \A i \in TraceIndices :
        \A k \in 1..Len(traces[i].transitions) :
            /\ k + 1 <= Len(traces[i].events)
            /\ LET transition == traces[i].transitions[k]
                   from == traces[i].events[k]
                   to == traces[i].events[k + 1]
               IN  /\ transition.from_event = from.event_id
                   /\ transition.to_event = to.event_id
                   /\ transition.from_agent = from.agent
                   /\ transition.to_agent = to.agent
                   /\ IsMeanOfTwo(transition.transition_score,
                                  from.confidence, to.confidence)

C2_Witness ==
    \E i \in TraceIndices :
        /\ Len(traces[i].transitions) >= 2
        /\ traces[i].events[2].agent # traces[i].events[3].agent
        /\ traces[i].events[2].confidence # traces[i].events[3].confidence
        /\ traces[i].events[2].event_id # traces[i].events[3].event_id

\* C3: overall_serendipity is the exact mean of the serendipity scores of the
\* events currently in the trace, and 0.0 for a trace without events.
C3_OverallIsMean ==
    \A i \in TraceIndices :
        LET n == Len(traces[i].events)
            total == ScoreTotal(traces[i].events, n)
            overall == traces[i].overall_serendipity
        IN  IF n = 0 THEN overall = <<0, 1>>
            ELSE overall[1] * total[2] * n = total[1] * overall[2]

C3_Witness ==
    \E i \in TraceIndices :
        /\ Len(traces[i].events) >= 3
        /\ traces[i].events[1].serendipity_score # traces[i].events[3].serendipity_score
        /\ traces[i].overall_serendipity = <<2, 3>>

\* C4: the log is append-only: every step leaves the events and transitions
\* already in a trace where and as they are, adds at most one event at the end
\* and at most one transition at the end, and never drops a trace.
C4_AppendOnly ==
    [][\A i \in TraceIndices :
        /\ i <= Len(traces')
        /\ IsPrefix(traces[i].events, traces'[i].events)
        /\ Len(traces'[i].events) <= Len(traces[i].events) + 1
        /\ IsPrefix(traces[i].transitions, traces'[i].transitions)
        /\ Len(traces'[i].transitions) <= Len(traces[i].transitions) + 1
        /\ (Len(traces'[i].transitions) > Len(traces[i].transitions)
                => Len(traces'[i].events) > Len(traces[i].events))]_vars

C4_Witness ==
    \E i \in TraceIndices :
        /\ Len(traces[i].events) >= 3
        /\ traces[i].events[1] # traces[i].events[2]
        /\ traces[i].transitions[1] # traces[i].transitions[2]
        /\ digests[i] # {}

\* C5: a transition's language_shift is populated iff the new event's language
\* differs from the previous event's, and then holds (previous, new).
C5_LanguageShift ==
    \A i \in TraceIndices :
        \A k \in 1..Len(traces[i].transitions) :
            LET shift == traces[i].transitions[k].language_shift
                prev == traces[i].events[k].language
                new == traces[i].events[k + 1].language
            IN  /\ (shift # None) <=> (prev # new)
                /\ shift # None => shift = Some(<<prev, new>>)

C5_Witness ==
    \E i \in TraceIndices :
        /\ Len(traces[i].transitions) >= 2
        /\ traces[i].transitions[1].language_shift = Some(<<EN, ID>>)
        /\ traces[i].transitions[2].language_shift = None

\* the set of the elements of a sequence
Range(seq) == {seq[k] : k \in 1..Len(seq)}

NoDuplicates(seq) == \A k, m \in 1..Len(seq) : seq[k] = seq[m] => k = m

\* the languages of the events alternate between a and b, starting with a
Alternates(events, a, b) ==
    \A k \in 1..Len(events) :
        events[k].language = IF k % 2 = 1 THEN a ELSE b

\* C6: languages always holds exactly the distinct language codes of the events,
\* each once; and n >= 2 events alternating between two distinct codes give
\* n - 1 transitions, at least one with a language shift, and those two codes.
C6_AlternatingLanguages ==
    \A i \in TraceIndices :
        LET trace == traces[i]
            n == Len(trace.events)
        IN  /\ NoDuplicates(trace.languages)
            /\ Range(trace.languages) = {trace.events[k].language : k \in 1..n}
            /\ \A a, b \in {EN, ID, ES} :
                (n >= 2 /\ a # b /\ Alternates(trace.events, a, b)) =>
                    /\ Len(trace.transitions) = n - 1
                    /\ \E k \in 1..Len(trace.transitions) :
                        trace.transitions[k].language_shift # None
                    /\ Len(trace.languages) = 2
                    /\ Range(trace.languages) = {a, b}

\* the scenario of the specification: 9 events alternating en / id
C6_Witness ==
    \E i \in TraceIndices :
        /\ Len(traces[i].events) = 9
        /\ Alternates(traces[i].events, EN, ID)
        /\ Len(traces[i].transitions) = 8
        /\ traces[i].languages = <<EN, ID>>

\* the content the claim names: ids, labels, event and transition sequences
SameContent(s, t) ==
    /\ s.trace_id = t.trace_id
    /\ s.contributor_id = t.contributor_id
    /\ s.backend = t.backend
    /\ s.discovery_name = t.discovery_name
    /\ s.events = t.events
    /\ s.transitions = t.transitions

\* C7: compute_provenance_hash is a deterministic function of the trace content:
\* traces with the same ids, labels, events and transitions get the same digest,
\* calls repeated with no log_event in between return the same digest, and a
\* call leaves every trace as it was.
C7_HashDeterministic ==
    /\ [](\A i, j \in TraceIndices :
            SameContent(traces[i], traces[j])
                => Cardinality(digests[i] \cup digests[j]) <= 1)
    /\ [][(\E i \in TraceIndices :
            digests'[i] # {} /\ digests'[i] # digests[i]) => traces' = traces]_vars

C7_Witness ==
    \E i, j \in TraceIndices :
        /\ traces[i] # traces[j]
        /\ SameContent(traces[i], traces[j])
        /\ traces[i].events # <<>>
        /\ digests[i] # {}
        /\ digests[j] # {}

\* C8: traces that differ in any recorded content of an event or a transition
\* are hashed from different byte sequences, so never share a digest.
C8_TamperEvident ==
    \A i, j \in TraceIndices :
        (traces[i].events # traces[j].events
            \/ traces[i].transitions # traces[j].transitions)
            => digests[i] \cap digests[j] = {}

\* t is s with one character inserted
OneCharInserted(s, t) ==
    /\ Len(t) = Len(s) + 1
    /\ \E k \in 1..Len(t) : SubSeq(t, 1, k - 1) \o SubSeq(t, k + 1, Len(t)) = s

\* s and t differ by one character substituted, inserted or deleted
OneCharChanged(s, t) ==
    \/ Len(s) = Len(t) /\ Cardinality({k \in 1..Len(s) : s[k] # t[k]}) = 1
    \/ OneCharInserted(s, t)
    \/ OneCharInserted(t, s)

\* f is e with a one-character change to exactly one of input, output, language
OneTextFieldChanged(e, f) ==
    \E field \in {"input", "output", "language"} :
        /\ OneCharChanged(e[field], f[field])
        /\ [e EXCEPT ![field] = f[field]] = f

\* t is s with such a change to exactly one event, all else equal
OneEventChanged(s, t) ==
    /\ s.trace_id = t.trace_id
    /\ s.contributor_id = t.contributor_id
    /\ s.backend = t.backend
    /\ s.discovery_name = t.discovery_name
    /\ Len(s.events) = Len(t.events)
    /\ \E k \in 1..Len(s.events) :
        /\ OneTextFieldChanged(s.events[k], t.events[k])
        /\ \A m \in 1..Len(s.events) : m # k => s.events[m] = t.events[m]

\* C9: a one-character change to the input, output or language of one event,
\* all else equal, changes the hashed bytes and so the digest.
C9_OneCharChangesDigest ==
    \A i, j \in TraceIndices :
        OneEventChanged(traces[i], traces[j]) => digests[i] \cap digests[j] = {}

C9_Witness ==
    \E i, j \in TraceIndices :
        /\ OneEventChanged(traces[i], traces[j])
        /\ Len(traces[i].events) = 2
        /\ traces[i].events[1].language # traces[j].events[1].language
        /\ digests[i] # {}
        /\ digests[j] # {}

\* C10: any two traces created by SerendipityTrace::new have different trace ids.
C10_TraceIdsUnique ==
    \A i, j \in TraceIndices : i # j => traces[i].trace_id # traces[j].trace_id

----------------------------------------------------------------------------
(* SerendipityTrace::fold_memory and depth *)

\* events logged to the trace of SpecFold
MaxFoldEvents == 3

\* x > y and x < y on f64
F64Gt(x, y) == x[1] * y[2] > y[1] * x[2]

F64Lt(x, y) == x[1] * y[2] < y[1] * x[2]

\* the 0.7 of the key-discovery filter
KeyDiscoveryThreshold == F64(7, 10)

\* mutant: the filter keeps a score of exactly 0.7
IsKeyDiscoveryInclusive(event) == ~F64Lt(event.serendipity_score, KeyDiscoveryThreshold)

\* |e| e.serendipity_score > 0.7
IsKeyDiscovery(event) == F64Gt(event.serendipity_score, KeyDiscoveryThreshold)

\* format!("{:?}: {}", e.stage, e.output)
DiscoveryText(event) == <<event.stage, ":", " ">> \o event.output

RECURSIVE KeyDiscoveries(_)
KeyDiscoveries(events) ==
    IF events = <<>> THEN <<>>
    ELSE (IF IsKeyDiscovery(Head(events)) THEN <<DiscoveryText(Head(events))>> ELSE <<>>)
            \o KeyDiscoveries(Tail(events))

RECURSIVE LanguageTransitions(_)
\* format!("{} -> {}", from, to) of every transition with a language shift
LanguageTransitions(transitions) ==
    IF transitions = <<>> THEN <<>>
    ELSE (IF Head(transitions).language_shift # None
          THEN <<Head(transitions).language_shift[1][1] \o <<" ", "-", ">", " ">>
                    \o Head(transitions).language_shift[1][2]>>
          ELSE <<>>)
            \o LanguageTransitions(Tail(transitions))

\* SerendipityTrace::depth
Depth(trace) == Len(trace.events)

\* SerendipityTrace::fold_memory
FoldMemory(trace) ==
    LET key_discoveries == KeyDiscoveries(trace.events)
    IN  [trace_id |-> trace.trace_id,
         discovery_name |-> trace.discovery_name,
         total_events |-> Len(trace.events),
         key_discoveries |-> key_discoveries,
         language_transitions |-> LanguageTransitions(trace.transitions),
         overall_serendipity |-> trace.overall_serendipity,
         compression_ratio |->
            IF trace.events = <<>> THEN F64Zero
            ELSE F64(Len(key_discoveries), Len(trace.events)),
         languages |-> trace.languages]

\* let folded = traces[i].fold_memory(): &self, the trace is only read
Fold(i) ==
    /\ i \in 1..Len(traces)
    /\ returned' = Some([call |-> "fold_memory", self |-> traces[i],
                         value |-> FoldMemory(traces[i])])
    /\ UNCHANGED <<now, traces, digests, ledgerVars>>

SerendipityArgs == {F64(1, 2), F64(7, 10), F64(3, 4)}

\* log_event calls that vary the serendipity score, the stage and the language
LogDiscovery ==
    \E stage \in StageArgs, language \in LanguageArgs,
       serendipity_score \in SerendipityArgs :
        /\ Len(traces[1].events) < MaxFoldEvents
        /\ LogEvent(1, stage, "Explorer", <<"q">>, <<"r">>, language,
                    serendipity_score, F64(1, 1))

FoldTrace == Fold(1)

NextFold ==
    \/ LogDiscovery
    \/ FoldTrace

\* SpecFold: one trace, logged to and folded
SpecFold == Init /\ [][NextFold]_vars

\* the indices of the events whose serendipity score is strictly above 0.7
KeyIndices(events) ==
    {k \in 1..Len(events) :
        events[k].serendipity_score[1] * 10 > 7 * events[k].serendipity_score[2]}

\* the j-th smallest element of a set of indices
NthIndex(indices, j) ==
    CHOOSE k \in indices : Cardinality({m \in indices : m <= k}) = j

\* C11: fold_memory gives compression_ratio 0.0 for an empty trace and otherwise
\* (events with serendipity_score > 0.7) / (events); key_discoveries lists exactly
\* those events, in append order; total_events equals depth().
C11_FoldMemory ==
    (returned # None /\ returned[1].call = "fold_memory") =>
        LET trace == returned[1].self
            folded == returned[1].value
            keys == KeyIndices(trace.events)
            n == Len(trace.events)
        IN  /\ folded.total_events = Depth(trace)
            /\ folded.total_events = n
            /\ Len(folded.key_discoveries) = Cardinality(keys)
            /\ \A j \in 1..Cardinality(keys) :
                LET event == trace.events[NthIndex(keys, j)]
                IN  folded.key_discoveries[j] = <<event.stage, ":", " ">> \o event.output
            /\ IF n = 0 THEN folded.compression_ratio = <<0, 1>>
               ELSE folded.compression_ratio[1] * n
                        = Cardinality(keys) * folded.compression_ratio[2]

C11_Witness ==
    /\ returned # None
    /\ returned[1].call = "fold_memory"
    /\ returned[1].value.total_events = 3
    /\ returned[1].value.compression_ratio = <<1, 3>>
    /\ returned[1].self.events[1].serendipity_score = <<7, 10>>
    /\ returned[1].self.events[2].serendipity_score = <<3, 4>>
    /\ returned[1].self.events[3].serendipity_score = <<1, 2>>

----------------------------------------------------------------------------
(* SerendipityTrace::uniqueness_score *)

\* events logged to the trace of SpecUniq
MaxUniqEvents == 7

F64Mul(x, y) == F64(x[1] * y[1], x[2] * y[2])

\* f64::min: the other operand when one is a NaN
F64Min(x, y) == IF IsNaN(x) THEN y ELSE IF IsNaN(y) THEN x ELSE IF F64Lt(y, x) THEN y ELSE x

\* agent_diversity: distinct agents / 7.0
AgentDiversity(trace) ==
    F64(Cardinality({trace.events[k].agent : k \in 1..Len(trace.events)}), 7)

\* mutant: the language count is not capped at 5
LanguageDiversityUncapped(trace) == F64(Len(trace.languages), 5)

\* language_diversity: min(languages.len(), 5.0) / 5.0
LanguageDiversity(trace) ==
    F64Div(F64Min(F64(Len(trace.languages), 1), F64(5, 1)), 5)

\* stage_diversity: distinct stages / 6.0
StageDiversity(trace) ==
    F64(Cardinality({trace.events[k].stage : k \in 1..Len(trace.events)}), 6)

\* SerendipityTrace::uniqueness_score
UniquenessScore(trace) ==
    F64Add(F64Add(F64Mul(F64(4, 10), AgentDiversity(trace)),
                  F64Mul(F64(3, 10), LanguageDiversity(trace))),
           F64Mul(F64(3, 10), StageDiversity(trace)))

\* let score = traces[i].uniqueness_score(): &self, the trace is only read
Uniqueness(i) ==
    /\ i \in 1..Len(traces)
    /\ returned' = Some([call |-> "uniqueness_score", self |-> traces[i],
                         value |-> UniquenessScore(traces[i])])
    /\ UNCHANGED <<now, traces, digests, ledgerVars>>

\* the variants in declaration order
StageSeq ==
    <<"Exploration", "UnexpectedConnection", "HypothesisFormation",
      "Validation", "Integration", "Publication">>

AgentSeq ==
    <<"Explorer", "PatternRecognizer", "HypothesisGenerator", "Validator",
      "Synthesizer", "Translator", "MetaOrchestrator">>

\* the k-th of a supply of distinct language codes: "l1", "l2", ...
LanguageCode(k) == <<"l">> \o DecStr(k)

\* the k-th element of seq, its last one beyond its length
Clamped(seq, k) == seq[IF k > Len(seq) THEN Len(seq) ELSE k]

\* which of agent, stage and language the next event takes fresh (the others
\* repeat those of the first event)
NoveltyArgs ==
    {<<TRUE, TRUE, TRUE>>, <<TRUE, FALSE, FALSE>>, <<FALSE, TRUE, FALSE>>,
     <<FALSE, FALSE, TRUE>>}

\* log_event calls that add a new agent, stage or language to the trace
LogDiverse ==
    \E fresh \in NoveltyArgs :
        LET n == Len(traces[1].events) + 1
        IN  /\ n <= MaxUniqEvents
            /\ LogEvent(1,
                        Clamped(StageSeq, IF fresh[2] THEN n ELSE 1),
                        Clamped(AgentSeq, IF fresh[1] THEN n ELSE 1),
                        <<"q">>, <<"r">>,
                        LanguageCode(IF fresh[3] THEN n ELSE 1),
                        F64(1, 1), F64(1, 1))

UniquenessOfTrace == Uniqueness(1)

NextUniq ==
    \/ LogDiverse
    \/ UniquenessOfTrace

\* SpecUniq: one trace growing in agents, stages and languages, and scored
SpecUniq == Init /\ [][NextUniq]_vars

\* C12: uniqueness_score() is 0.4 (distinct agents / 7)
\* + 0.3 (min(distinct languages, 5) / 5) + 0.3 (distinct stages / 6), in [0, 1].
C12_UniquenessScore ==
    (returned # None /\ returned[1].call = "uniqueness_score") =>
        LET events == returned[1].self.events
            value == returned[1].value
            a == Cardinality({events[k].agent : k \in 1..Len(events)})
            l == Cardinality({events[k].language : k \in 1..Len(events)})
            s == Cardinality({events[k].stage : k \in 1..Len(events)})
            capped == IF l > 5 THEN 5 ELSE l
        IN  /\ value[1] * 700 = (40 * a + 42 * capped + 35 * s) * value[2]
            /\ value[1] >= 0
            /\ value[1] <= value[2]

C12_Witness ==
    /\ returned # None
    /\ returned[1].call = "uniqueness_score"
    /\ returned[1].value = <<1, 1>>
    /\ Len(returned[1].self.languages) > 5

----------------------------------------------------------------------------
(* LanguageAwareContributorStats *)

\* add_trace calls on one statistics object in SpecStats
MaxStatTraces == 3

\* discoveries added to one statistics object
MaxDiscoveries == 11

\* expertise domains added to one statistics object
MaxDomains == 2

\* LanguageAwareContributorStats::new
NewStats(contributor_id) ==
    [contributor_id |-> contributor_id,
     total_traces |-> 0,
     avg_trace_depth |-> F64Zero,
     avg_uniqueness |-> F64Zero,
     avg_serendipity |-> F64Zero,
     languages_used |-> <<>>,
     language_proficiency |-> <<>>,
     cross_language_expertise |-> F64Zero,
     multilingual_traces |-> 0,
     avg_alignment_score |-> F64Zero,
     avg_translation_quality |-> F64Zero,
     discoveries |-> <<>>,
     expertise_domains |-> <<>>]

\* mutant: the old mean is weighed by the new count
RunningMeanStale(avg, total, x) == F64Div(F64Add(F64Mul(avg, F64(total, 1)), x), total)

\* (avg * (total - 1) as f64 + x) / total as f64
RunningMean(avg, total, x) == F64Div(F64Add(F64Mul(avg, F64(total - 1, 1)), x), total)

\* mutant: the language is pushed whether or not the list holds it
TrackProficiencyPushing(self, lang, uniqueness) ==
    LET current_prof == IF lang \in DOMAIN self.language_proficiency
                        THEN self.language_proficiency[lang] ELSE F64Zero
        new_prof == F64Div(F64Add(current_prof, uniqueness), 2)
    IN  [self EXCEPT
            !.languages_used = Append(@, lang),
            !.language_proficiency =
                [l \in DOMAIN @ \cup {lang} |-> IF l = lang THEN new_prof ELSE @[l]]]

\* the body of the loop over the languages of add_trace
TrackProficiency(self, lang, uniqueness) ==
    LET current_prof == IF lang \in DOMAIN self.language_proficiency
                        THEN self.language_proficiency[lang] ELSE F64Zero
        new_prof == F64Div(F64Add(current_prof, uniqueness), 2)
    IN  [self EXCEPT
            !.languages_used = IF Contains(@, lang) THEN @ ELSE Append(@, lang),
            !.language_proficiency =
                [l \in DOMAIN @ \cup {lang} |-> IF l = lang THEN new_prof ELSE @[l]]]

RECURSIVE TrackLanguages(_, _, _)
\* for lang in &languages { ... }
TrackLanguages(self, languages, uniqueness) ==
    IF languages = <<>> THEN self
    ELSE TrackLanguages(TrackProficiency(self, Head(languages), uniqueness),
                        Tail(languages), uniqueness)

\* mutant: the language count is not capped at 10
CrossLanguageExpertiseUncapped(self) ==
    F64Mul(F64Div(F64(Len(self.languages_used), 1), 10),
           F64(self.multilingual_traces, self.total_traces))

\* min(languages_used.len(), 10.0) / 10.0 * (multilingual_traces / total_traces)
CrossLanguageExpertise(self) ==
    F64Mul(F64Div(F64Min(F64(Len(self.languages_used), 1), F64(10, 1)), 10),
           F64(self.multilingual_traces, self.total_traces))

\* LanguageAwareContributorStats::add_trace
AddTraceOn(self, depth, uniqueness, serendipity, languages, alignment_score, translation_quality) ==
    LET total == self.total_traces + 1
        counted == [self EXCEPT
                      !.total_traces = total,
                      !.avg_trace_depth = RunningMean(@, total, F64(depth, 1)),
                      !.avg_uniqueness = RunningMean(@, total, uniqueness),
                      !.avg_serendipity = RunningMean(@, total, serendipity),
                      !.multilingual_traces = IF Len(languages) > 1 THEN @ + 1 ELSE @]
        tracked == TrackLanguages(counted, languages, uniqueness)
    IN  [tracked EXCEPT
            !.cross_language_expertise = CrossLanguageExpertise(tracked),
            !.avg_alignment_score = RunningMean(@, total, alignment_score),
            !.avg_translation_quality = RunningMean(@, total, translation_quality)]

\* stats[i].add_trace(...); added[i] keeps the arguments the caller passed
AddTrace(i, depth, uniqueness, serendipity, languages, alignment_score, translation_quality) ==
    /\ i \in 1..Len(stats)
    /\ stats' = [stats EXCEPT ![i] =
                    AddTraceOn(stats[i], depth, uniqueness, serendipity, languages,
                               alignment_score, translation_quality)]
    /\ added' = [added EXCEPT ![i] =
                    Append(@, [depth |-> depth, uniqueness |-> uniqueness,
                               serendipity |-> serendipity, languages |-> languages,
                               alignment_score |-> alignment_score,
                               translation_quality |-> translation_quality])]
    /\ UNCHANGED <<now, traces, digests, leaderboard, agent_events, returned>>


\* mutant: the name is pushed whether or not the list holds it
AddDiscoveryOnUnchecked(self, discovery_name) ==
    [self EXCEPT !.discoveries = Append(@, discovery_name)]

\* LanguageAwareContributorStats::add_discovery
AddDiscoveryOn(self, discovery_name) ==
    IF ~Contains(self.discoveries, discovery_name)
    THEN [self EXCEPT !.discoveries = Append(@, discovery_name)]
    ELSE self

\* LanguageAwareContributorStats::add_expertise_domain
AddExpertiseDomainOn(self, domain) ==
    IF ~Contains(self.expertise_domains, domain)
    THEN [self EXCEPT !.expertise_domains = Append(@, domain)]
    ELSE self

\* stats[i].add_discovery(discovery_name)
AddDiscovery(i, discovery_name) ==
    /\ i \in 1..Len(stats)
    /\ stats' = [stats EXCEPT ![i] = AddDiscoveryOn(stats[i], discovery_name)]
    /\ UNCHANGED <<now, traces, digests, added, leaderboard, agent_events, returned>>

\* stats[i].add_expertise_domain(domain)
AddExpertiseDomain(i, domain) ==
    /\ i \in 1..Len(stats)
    /\ stats' = [stats EXCEPT ![i] = AddExpertiseDomainOn(stats[i], domain)]
    /\ UNCHANGED <<now, traces, digests, added, leaderboard, agent_events, returned>>

\* the k-th of a supply of distinct discovery names: "d1", "d2", ...
DiscoveryName(k) == <<"d">> \o DecStr(k)

\* the k-th of a supply of distinct domain names: "x1", "x2", ...
DomainName(k) == <<"x">> \o DecStr(k)

\* a list of eleven distinct language codes
ManyLanguages == [k \in 1..11 |-> LanguageCode(k)]

\* the argument tuples of the add_trace calls of SpecStats
TraceArgs ==
    {[depth |-> 2, uniqueness |-> F64(1, 2), serendipity |-> F64(1, 4),
      languages |-> <<EN>>, alignment_score |-> F64(1, 1),
      translation_quality |-> F64(1, 1)],
     [depth |-> 5, uniqueness |-> F64(1, 1), serendipity |-> F64(3, 4),
      languages |-> <<EN, ID>>, alignment_score |-> F64(1, 2),
      translation_quality |-> F64(1, 4)],
     [depth |-> 3, uniqueness |-> F64(0, 1), serendipity |-> F64(0, 1),
      languages |-> <<EN, EN>>, alignment_score |-> F64(1, 4),
      translation_quality |-> F64(3, 4)],
     [depth |-> 60, uniqueness |-> F64(1, 4), serendipity |-> F64(1, 1),
      languages |-> ManyLanguages, alignment_score |-> F64(1, 1),
      translation_quality |-> F64(1, 2)]}

InitStats ==
    /\ now = ClockAt(0)
    /\ traces = <<>>
    /\ digests = <<>>
    /\ stats = <<NewStats(<<"a">>)>>
    /\ added = <<<<>>>>
    /\ leaderboard = [contributors |-> <<>>, order |-> <<>>]
    /\ agent_events = <<>>
    /\ returned = None

AddTraceAny ==
    \E a \in TraceArgs :
        /\ stats[1].total_traces < MaxStatTraces
        /\ AddTrace(1, a.depth, a.uniqueness, a.serendipity, a.languages,
                    a.alignment_score, a.translation_quality)

\* add_discovery with the first name again or with the next new name
AddDiscoveryAny ==
    \E k \in {1, Len(stats[1].discoveries) + 1} :
        /\ k <= MaxDiscoveries
        /\ AddDiscovery(1, DiscoveryName(k))

\* add_expertise_domain with the first name again or with the next new name
AddDomainAny ==
    \E k \in {1, Len(stats[1].expertise_domains) + 1} :
        /\ k <= MaxDomains
        /\ AddExpertiseDomain(1, DomainName(k))

NextStats ==
    \/ AddTraceAny
    \/ AddDiscoveryAny
    \/ AddDomainAny

\* SpecStats: one contributor's statistics under add_trace, add_discovery and
\* add_expertise_domain
SpecStats == InitStats /\ [][NextStats]_vars

RECURSIVE SumOf(_, _)
\* the sum of the f64 field of the argument records
SumOf(history, field) ==
    IF history = <<>> THEN F64Zero
    ELSE F64Add(SumOf(Tail(history), field), Head(history)[field])

RECURSIVE SumDepth(_)
SumDepth(history) ==
    IF history = <<>> THEN 0 ELSE Head(history).depth + SumDepth(Tail(history))

\* the f64 avg is the arithmetic mean of the field over the k >= 1 records
IsMeanOf(avg, history, field) ==
    LET sum == SumOf(history, field)
    IN  avg[1] * sum[2] * Len(history) = sum[1] * avg[2]

\* C13: after k add_trace calls on a fresh statistics object total_traces is k
\* and each of avg_trace_depth, avg_uniqueness, avg_serendipity,
\* avg_alignment_score and avg_translation_quality is the arithmetic mean of
\* its own inputs.
C13_RunningMeans ==
    \A i \in 1..Len(stats) :
        LET k == Len(added[i]) IN
        /\ stats[i].total_traces = k
        /\ k >= 1 =>
            /\ stats[i].avg_trace_depth[1] * k = SumDepth(added[i]) * stats[i].avg_trace_depth[2]
            /\ IsMeanOf(stats[i].avg_uniqueness, added[i], "uniqueness")
            /\ IsMeanOf(stats[i].avg_serendipity, added[i], "serendipity")
            /\ IsMeanOf(stats[i].avg_alignment_score, added[i], "alignment_score")
            /\ IsMeanOf(stats[i].avg_translation_quality, added[i], "translation_quality")

C13_Witness ==
    /\ Len(added[1]) = 3
    /\ added[1][1].depth # added[1][2].depth
    /\ added[1][2].uniqueness # added[1][3].uniqueness
    /\ stats[1].avg_trace_depth = F64(10, 3)
    /\ stats[1].avg_uniqueness = F64(1, 2)
    /\ stats[1].avg_serendipity = F64(1, 3)
    /\ stats[1].avg_alignment_score = F64(7, 12)
    /\ stats[1].avg_translation_quality = F64(2, 3)


----------------------------------------------------------------------------
(* LanguageAwareContributorStats::overall_score *)

\* add_trace calls on the statistics object of SpecScore
MaxScoreTraces == 2

\* mutant: the depth score is not capped at 1
DepthScoreUncapped(self) == F64Div(self.avg_trace_depth, 50)

\* (avg_trace_depth / 50.0).min(1.0)
DepthScore(self) == F64Min(F64Div(self.avg_trace_depth, 50), F64(1, 1))

\* (avg_alignment_score + avg_translation_quality) / 2.0
QualityScore(self) ==
    F64Div(F64Add(self.avg_alignment_score, self.avg_translation_quality), 2)

\* (discoveries.len() as f64 / 10.0).min(1.0)
DiscoveryScore(self) == F64Min(F64Div(F64(Len(self.discoveries), 1), 10), F64(1, 1))

\* LanguageAwareContributorStats::overall_score
OverallScore(self) ==
    F64Add(F64Add(F64Add(F64Add(F64Add(
        F64Mul(F64(20, 100), DepthScore(self)),
        F64Mul(F64(25, 100), self.avg_uniqueness)),
        F64Mul(F64(20, 100), self.avg_serendipity)),
        F64Mul(F64(15, 100), self.cross_language_expertise)),
        F64Mul(F64(10, 100), QualityScore(self))),
        F64Mul(F64(10, 100), DiscoveryScore(self)))

\* let score = stats[i].overall_score(): &self, the statistics are only read
Score(i) ==
    /\ i \in 1..Len(stats)
    /\ returned' = Some([call |-> "overall_score", self |-> stats[i],
                         value |-> OverallScore(stats[i])])
    /\ UNCHANGED <<now, traces, digests, ledgerVars>>

\* the argument tuples of the add_trace calls of SpecScore: the least and the
\* greatest scores of [0, 1] and one between them
ScoreTraceArgs ==
    {[depth |-> 0, uniqueness |-> F64(0, 1), serendipity |-> F64(0, 1),
      languages |-> <<>>, alignment_score |-> F64(0, 1),
      translation_quality |-> F64(0, 1)],
     [depth |-> 25, uniqueness |-> F64(1, 2), serendipity |-> F64(3, 4),
      languages |-> <<EN, ID>>, alignment_score |-> F64(1, 4),
      translation_quality |-> F64(1, 2)],
     [depth |-> 60, uniqueness |-> F64(1, 1), serendipity |-> F64(1, 1),
      languages |-> ManyLanguages, alignment_score |-> F64(1, 1),
      translation_quality |-> F64(1, 1)]}

AddTraceScored ==
    \E a \in ScoreTraceArgs :
        /\ stats[1].total_traces < MaxScoreTraces
        /\ AddTrace(1, a.depth, a.uniqueness, a.serendipity, a.languages,
                    a.alignment_score, a.translation_quality)

ScoreOfStats == Score(1)

NextScore ==
    \/ AddTraceScored
    \/ AddDiscoveryAny
    \/ AddDomainAny
    \/ ScoreOfStats

\* SpecScore: one contributor's statistics, fed scores of [0, 1], and scored
SpecScore == InitStats /\ [][NextScore]_vars

\* C14: overall_score() of statistics built by add_trace with scores in
\* [0, 1], add_discovery and add_expertise_domain lies in [0, 1].
C14_OverallScoreInUnitInterval ==
    (returned # None /\ returned[1].call = "overall_score") =>
        /\ returned[1].value[2] > 0
        /\ returned[1].value[1] >= 0
        /\ returned[1].value[1] <= returned[1].value[2]

C14_Witness ==
    /\ returned # None
    /\ returned[1].call = "overall_score"
    /\ returned[1].value = F64(1, 1)
    /\ Len(returned[1].self.discoveries) > 10
    /\ F64Gt(returned[1].self.avg_trace_depth, F64(50, 1))
    /\ Len(returned[1].self.languages_used) > 10


RECURSIVE AllLanguages(_)
\* the languages of the argument records, in call order
AllLanguages(history) ==
    IF history = <<>> THEN <<>>
    ELSE Head(history).languages \o AllLanguages(Tail(history))

RECURSIVE FirstSeen(_)
\* seq without its repetitions, in first-seen order
FirstSeen(seq) ==
    IF seq = <<>> THEN <<>>
    ELSE LET front == FirstSeen(SubSeq(seq, 1, Len(seq) - 1))
             last == seq[Len(seq)]
         IN  IF \E k \in 1..Len(front) : front[k] = last THEN front
             ELSE Append(front, last)

\* C15: after every add_trace cross_language_expertise is
\* min(|languages_used|, 10)/10 * (multilingual_traces / total_traces), with
\* languages_used the distinct languages passed so far; add_discovery leaves
\* it alone; one trace with 2 languages, then 3 discoveries, gives 0.2.
C15_CrossLanguageExpertise ==
    /\ [](\A i \in 1..Len(stats) :
            LET s == stats[i]
                used == Len(s.languages_used)
                capped == IF used > 10 THEN 10 ELSE used
            IN  /\ s.languages_used = FirstSeen(AllLanguages(added[i]))
                /\ s.total_traces >= 1 =>
                    s.cross_language_expertise[1] * 10 * s.total_traces
                        = capped * s.multilingual_traces * s.cross_language_expertise[2]
                /\ (/\ Len(added[i]) = 1
                    /\ Cardinality(Range(added[i][1].languages)) = 2
                    /\ Len(s.discoveries) = 3)
                        => s.cross_language_expertise = F64(2, 10))
    /\ [][\A i \in 1..Len(stats) : \A k \in 1..MaxDiscoveries + 1 :
            AddDiscovery(i, DiscoveryName(k)) =>
                stats'[i].cross_language_expertise = stats[i].cross_language_expertise]_vars

C15_Witness ==
    /\ Len(added[1]) = 1
    /\ added[1][1].languages = <<EN, ID>>
    /\ Len(stats[1].discoveries) = 3
    /\ stats[1].cross_language_expertise = F64(1, 5)


\* C16: add_discovery and add_expertise_domain are idempotent set-inserts: with
\* a name already in the list the statistics stay as they are, with a new name
\* the name is appended at the end; the lists never hold a name twice.
C16_IdempotentSetInsert ==
    /\ [](\A i \in 1..Len(stats) :
            /\ NoDuplicates(stats[i].discoveries)
            /\ NoDuplicates(stats[i].expertise_domains))
    /\ [][\A i \in 1..Len(stats) :
            /\ \A k \in 1..MaxDiscoveries + 1 :
                AddDiscovery(i, DiscoveryName(k)) =>
                    IF Contains(stats[i].discoveries, DiscoveryName(k))
                    THEN stats' = stats
                    ELSE stats' = [stats EXCEPT ![i].discoveries = Append(@, DiscoveryName(k))]
            /\ \A k \in 1..MaxDomains + 1 :
                AddExpertiseDomain(i, DomainName(k)) =>
                    IF Contains(stats[i].expertise_domains, DomainName(k))
                    THEN stats' = stats
                    ELSE stats' = [stats EXCEPT ![i].expertise_domains = Append(@, DomainName(k))]]_vars

C16_Witness ==
    /\ Len(stats[1].discoveries) >= 3
    /\ stats[1].discoveries[1] = DiscoveryName(1)
    /\ stats[1].discoveries[3] = DiscoveryName(3)
    /\ Len(stats[1].expertise_domains) = 2


----------------------------------------------------------------------------
(* LanguageAwareLeaderboard *)

\* contributors entered into the leaderboard of SpecRank
MaxContributors == 3

\* add_trace calls on one statistics object before it is entered
MaxRankTraces == 1

\* add_discovery calls on one statistics object before it is entered
MaxRankDiscoveries == 1

LanguageAwareRankingCriteria ==
    {"Overall", "Serendipity", "CrossLanguageExpertise", "Discoveries",
     "TranslationQuality", "LanguageDiversity"}

\* LanguageAwareLeaderboard::get_score
GetScore(s, criteria) ==
    CASE criteria = "Overall" -> OverallScore(s)
      [] criteria = "Serendipity" -> s.avg_serendipity
      [] criteria = "CrossLanguageExpertise" -> s.cross_language_expertise
      [] criteria = "Discoveries" -> F64(Len(s.discoveries), 1)
      [] criteria = "TranslationQuality" -> s.avg_translation_quality
      [] criteria = "LanguageDiversity" -> F64(Len(s.languages_used), 1)

\* LanguageAwareLeaderboard::new: contributors is the map, order the
\* iteration order of its keys
NewLeaderboard == [contributors |-> <<>>, order |-> <<>>]

\* the orders in which a hash map may iterate the keys
IterationOrders(keys) ==
    {p \in [1..Cardinality(keys) -> keys] : \A k, m \in DOMAIN p : p[k] = p[m] => k = m}

\* mutant: an id already held keeps its record
AddContributorOnKeeping(board, s, order) ==
    [contributors |-> [id \in DOMAIN board.contributors \cup {s.contributor_id} |->
                          IF id \in DOMAIN board.contributors THEN board.contributors[id] ELSE s],
     order |-> order]

\* LanguageAwareLeaderboard::add_contributor: HashMap::insert by contributor_id
AddContributorOn(board, s, order) ==
    [contributors |-> [id \in DOMAIN board.contributors \cup {s.contributor_id} |->
                          IF id = s.contributor_id THEN s ELSE board.contributors[id]],
     order |-> order]

\* self.contributors.values().cloned().collect()
Values(board) == [k \in 1..Len(board.order) |-> board.contributors[board.order[k]]]

RECURSIVE InsertByScore(_, _, _)
\* x placed behind every element whose score is not below its own
InsertByScore(sorted, x, criteria) ==
    IF sorted = <<>> THEN <<x>>
    ELSE LET last == sorted[Len(sorted)]
         IN  IF F64Lt(GetScore(last, criteria), GetScore(x, criteria))
             THEN Append(InsertByScore(SubSeq(sorted, 1, Len(sorted) - 1), x, criteria), last)
             ELSE Append(sorted, x)

RECURSIVE SortByScore(_, _)
\* sort_by(|a, b| score_b.partial_cmp(&score_a).unwrap()): stable, descending
SortByScore(seq, criteria) ==
    IF seq = <<>> THEN <<>>
    ELSE InsertByScore(SortByScore(SubSeq(seq, 1, Len(seq) - 1), criteria),
                       seq[Len(seq)], criteria)

\* partial_cmp(..).unwrap() panics on a None: a sort of two or more elements
\* compares every one of them, and a comparison with a NaN is None
SortPanics(seq, criteria) ==
    /\ Len(seq) >= 2
    /\ \E k \in 1..Len(seq) : IsNaN(GetScore(seq[k], criteria))

\* into_iter().take(n).collect()
Take(seq, n) == SubSeq(seq, 1, IF n < Len(seq) THEN n ELSE Len(seq))

\* LanguageAwareLeaderboard::get_top_n: the entries, or the panic of the unwrap
GetTopN(board, n, criteria) ==
    IF SortPanics(Values(board), criteria)
    THEN [panicked |-> TRUE, entries |-> <<>>]
    ELSE [panicked |-> FALSE, entries |-> Take(SortByScore(Values(board), criteria), n)]

\* seq without its i-th element
RemoveAt(seq, i) == SubSeq(seq, 1, i - 1) \o SubSeq(seq, i + 1, Len(seq))

\* let mut stats = LanguageAwareContributorStats::new(contributor_id)
NewContributor(contributor_id) ==
    /\ stats' = Append(stats, NewStats(contributor_id))
    /\ added' = Append(added, <<>>)
    /\ UNCHANGED <<now, traces, digests, leaderboard, agent_events, returned>>

\* leaderboard.add_contributor(stats[i]): the statistics move into the map; a
\* new key may change the iteration order, a held key leaves it as it is
AddContributor(i, order) ==
    /\ i \in 1..Len(stats)
    /\ IF stats[i].contributor_id \in DOMAIN leaderboard.contributors
       THEN order = leaderboard.order
       ELSE order \in IterationOrders(DOMAIN leaderboard.contributors \cup {stats[i].contributor_id})
    /\ leaderboard' = AddContributorOn(leaderboard, stats[i], order)
    /\ stats' = RemoveAt(stats, i)
    /\ added' = RemoveAt(added, i)
    /\ UNCHANGED <<now, traces, digests, agent_events, returned>>

\* let top = leaderboard.get_top_n(n, criteria): &self, the map is only read
GetTop(n, criteria) ==
    /\ returned' = Some([call |-> "get_top_n", self |-> leaderboard, n |-> n,
                         criteria |-> criteria,
                         value |-> GetTopN(leaderboard, n, criteria)])
    /\ UNCHANGED <<now, traces, digests, ledgerVars>>


\* the contributor ids of SpecRank, in the order they are entered
ContributorSeq == <<<<"a">>, <<"b">>, <<"c">>, <<"d">>>>

\* the argument tuples of the add_trace calls of SpecRank: a trace of scores
\* in [0, 1], and one with a uniqueness that is not a number and a serendipity
\* above 1
RankTraceArgs ==
    {[depth |-> 20, uniqueness |-> F64(1, 1), serendipity |-> F64(1, 1),
      languages |-> <<EN, ID>>, alignment_score |-> F64(1, 1),
      translation_quality |-> F64(1, 1)],
     [depth |-> 10, uniqueness |-> NaN, serendipity |-> F64(2, 1),
      languages |-> <<EN>>, alignment_score |-> F64(1, 2),
      translation_quality |-> F64(1, 2)]}

InitRank ==
    /\ now = ClockAt(0)
    /\ traces = <<>>
    /\ digests = <<>>
    /\ stats = <<>>
    /\ added = <<>>
    /\ leaderboard = NewLeaderboard
    /\ agent_events = <<>>
    /\ returned = None

\* the next contributor's statistics are begun once the last ones are entered
Enrol ==
    /\ returned = None
    /\ stats = <<>>
    /\ Len(leaderboard.order) < MaxContributors
    /\ NewContributor(Clamped(ContributorSeq, Len(leaderboard.order) + 1))

AddTraceRanked ==
    \E a \in RankTraceArgs :
        /\ returned = None
        /\ stats # <<>>
        /\ stats[1].total_traces < MaxRankTraces
        /\ AddTrace(1, a.depth, a.uniqueness, a.serendipity, a.languages,
                    a.alignment_score, a.translation_quality)

AddDiscoveryRanked ==
    /\ returned = None
    /\ stats # <<>>
    /\ Len(stats[1].discoveries) < MaxRankDiscoveries
    /\ AddDiscovery(1, DiscoveryName(Len(stats[1].discoveries) + 1))

Enter ==
    /\ returned = None
    /\ stats # <<>>
    /\ \E order \in IterationOrders(DOMAIN leaderboard.contributors \cup {stats[1].contributor_id}) :
            AddContributor(1, order)

\* the rankings are asked for once the statistics in hand are entered
TopN ==
    \E n \in 0..MaxContributors, criteria \in LanguageAwareRankingCriteria :
        /\ stats = <<>>
        /\ GetTop(n, criteria)

NextRank ==
    \/ Enrol
    \/ AddTraceRanked
    \/ AddDiscoveryRanked
    \/ Enter
    \/ TopN

\* SpecRank: a leaderboard filled with up to MaxContributors contributors
\* and then ranked
SpecRank == InitRank /\ [][NextRank]_vars

\* the ranking r.value of the board r.self is one get_top_n may correctly return
IsTopN(r) ==
    LET board == r.self
        entries == r.value.entries
        population == Cardinality(DOMAIN board.contributors)
        score(s) == GetScore(s, r.criteria)
        ids == {entries[k].contributor_id : k \in 1..Len(entries)}
    IN  /\ Len(entries) = IF r.n < population THEN r.n ELSE population
        /\ \A k \in 1..Len(entries) :
            /\ entries[k].contributor_id \in DOMAIN board.contributors
            /\ entries[k] = board.contributors[entries[k].contributor_id]
        /\ Cardinality(ids) = Len(entries)
        /\ \A k \in 1..Len(entries) - 1 : ~F64Lt(score(entries[k]), score(entries[k + 1]))
        /\ \A id \in DOMAIN board.contributors \ ids : \A k \in 1..Len(entries) :
            ~F64Gt(score(board.contributors[id]), score(entries[k]))

\* get_top_n completes with a correct ranking whenever no criterion score of
\* the ledger is a NaN
TopNOfComparableScores ==
    (returned # None /\ returned[1].call = "get_top_n") =>
        \/ \E id \in DOMAIN returned[1].self.contributors :
                IsNaN(GetScore(returned[1].self.contributors[id], returned[1].criteria))
        \/ ~returned[1].value.panicked /\ IsTopN(returned[1])

\* C17: for every ledger, n and criterion get_top_n returns exactly
\* min(n, number of contributors) entries, each a distinct contributor of the
\* ledger, in descending order of criterion score, and no omitted contributor
\* scores higher than a returned one.
C17_TopNRanking ==
    (returned # None /\ returned[1].call = "get_top_n") =>
        /\ ~returned[1].value.panicked
        /\ IsTopN(returned[1])

\* C18: get_top_n never fails: an empty ledger gives an empty result, an n
\* above the population gives all contributors, and the call completes for
\* every ledger built by add_trace and add_contributor, also from
\* out-of-range or non-comparable scores.
C18_TopNNeverFails ==
    (returned # None /\ returned[1].call = "get_top_n") =>
        LET population == Cardinality(DOMAIN returned[1].self.contributors)
        IN  /\ ~returned[1].value.panicked
            /\ population = 0 => returned[1].value.entries = <<>>
            /\ returned[1].n >= population => Len(returned[1].value.entries) = population


----------------------------------------------------------------------------
(* A contributor's record over time *)

\* add_trace, add_discovery and add_expertise_domain calls on one statistics
\* object of SpecBoard before it is entered
MaxBoardCalls == 2

\* the calls made so far on the statistics in hand
CallsOn(s) == s.total_traces + Len(s.discoveries) + Len(s.expertise_domains)

\* statistics are begun for either contributor, a second time too
EnrolAny ==
    \E contributor_id \in {<<"a">>, <<"b">>} :
        /\ stats = <<>>
        /\ NewContributor(contributor_id)

AddTraceBoard ==
    /\ stats # <<>>
    /\ CallsOn(stats[1]) < MaxBoardCalls
    /\ AddTrace(1, 20, F64(1, 1), F64(1, 1), <<EN, ID>>, F64(1, 1), F64(1, 1))

AddDiscoveryBoard ==
    /\ stats # <<>>
    /\ CallsOn(stats[1]) < MaxBoardCalls
    /\ AddDiscovery(1, DiscoveryName(Len(stats[1].discoveries) + 1))

AddDomainBoard ==
    /\ stats # <<>>
    /\ CallsOn(stats[1]) < MaxBoardCalls
    /\ AddExpertiseDomain(1, DomainName(Len(stats[1].expertise_domains) + 1))

EnterAny ==
    /\ stats # <<>>
    /\ \E order \in IterationOrders(DOMAIN leaderboard.contributors \cup {stats[1].contributor_id}) :
            AddContributor(1, order)

NextBoard ==
    \/ EnrolAny
    \/ AddTraceBoard
    \/ AddDiscoveryBoard
    \/ AddDomainBoard
    \/ EnterAny

\* SpecBoard: statistics objects built one at a time and entered into the
\* leaderboard, also under an id the leaderboard already holds
SpecBoard == InitRank /\ [][NextBoard]_vars

\* the statistics t hold all that s holds
Grown(s, t) ==
    /\ t.total_traces >= s.total_traces
    /\ t.multilingual_traces >= s.multilingual_traces
    /\ Range(s.languages_used) \subseteq Range(t.languages_used)
    /\ Range(s.discoveries) \subseteq Range(t.discoveries)
    /\ Range(s.expertise_domains) \subseteq Range(t.expertise_domains)

\* C19 (as claimed): the record held for a contributor id is never removed
\* and, across add_trace, add_discovery, add_expertise_domain and
\* add_contributor, never loses a trace count or a list element.
C19_RecordOnlyGrows ==
    [][\A id \in DOMAIN leaderboard.contributors :
        /\ id \in DOMAIN leaderboard'.contributors
        /\ Grown(leaderboard.contributors[id], leaderboard'.contributors[id])]_vars

\* C19 (amended): the leaderboard never drops a contributor id, and a
\* statistics object only grows under add_trace, add_discovery and
\* add_expertise_domain; add_contributor replaces the record held for the id
\* by the statistics it is given, whatever they hold, and leaves every other
\* record as it is.
C19_RecordReplacedNotMerged ==
    [][/\ DOMAIN leaderboard.contributors \subseteq DOMAIN leaderboard'.contributors
       /\ (Len(stats') = Len(stats) => \A i \in 1..Len(stats) : Grown(stats[i], stats'[i]))
       /\ \A i \in 1..Len(stats) :
            \A order \in IterationOrders(DOMAIN leaderboard.contributors \cup {stats[i].contributor_id}) :
                AddContributor(i, order) =>
                    /\ leaderboard'.contributors[stats[i].contributor_id] = stats[i]
                    /\ \A id \in DOMAIN leaderboard.contributors \ {stats[i].contributor_id} :
                        leaderboard'.contributors[id] = leaderboard.contributors[id]]_vars

\* the leaderboard holds a record for both ids, and the statistics in hand,
\* to be entered under the held id "b", lack the trace and the discovery of
\* the record they replace
C19_Witness ==
    /\ DOMAIN leaderboard.contributors = {<<"a">>, <<"b">>}
    /\ leaderboard.contributors[<<"a">>] = NewStats(<<"a">>)
    /\ leaderboard.contributors[<<"b">>].total_traces = 1
    /\ Len(leaderboard.contributors[<<"b">>].discoveries) = 1
    /\ stats # <<>>
    /\ stats[1].contributor_id = <<"b">>
    /\ Len(stats[1].expertise_domains) = 1
    /\ stats[1].total_traces = 0


----------------------------------------------------------------------------
(* MultilingualMemoryFolder::detect_cross_language_patterns *)

\* events in the slice handed to the folder
MaxAgentEvents == 4

\* LanguageAwareAgentEvent::new: no secondary language, no optional score
NewAgentEvent(agent_type, input, output, primary_language, confidence) ==
    [agent_type |-> agent_type, input |-> input, output |-> output,
     primary_language |-> primary_language, confidence |-> confidence,
     secondary_languages |-> <<>>, alignment_score |-> None]

\* LanguageAwareAgentEvent::add_secondary_language, for a language the event
\* does not have yet
AddSecondaryLanguageOn(event, language) ==
    [event EXCEPT !.secondary_languages = Append(@, language)]

\* LanguageAwareAgentEvent::is_multilingual
IsMultilingual(event) == event.secondary_languages # <<>>

\* LanguageAwareAgentEvent::all_languages: the primary, then the secondary ones
AllLanguagesOf(event) == <<event.primary_language>> \o event.secondary_languages

\* "Switch from {} to {}"
SwitchDescription(from, to) ==
    <<"S", "w", "i", "t", "c", "h", " ", "f", "r", "o", "m", " ">> \o from
        \o <<" ", "t", "o", " ">> \o to

\* "{} multilingual reasoning steps detected"
ReasoningDescription(count) ==
    DecStr(count) \o <<" ", "m", "u", "l", "t", "i", "l", "i", "n", "g", "u", "a", "l", " ",
                       "r", "e", "a", "s", "o", "n", "i", "n", "g", " ",
                       "s", "t", "e", "p", "s", " ",
                       "d", "e", "t", "e", "c", "t", "e", "d">>

\* mutant: the languages of the pair in reverse
LanguageSwitchReversed(first, second) ==
    [pattern_type |-> "LanguageSwitch",
     languages |-> <<second.primary_language, first.primary_language>>,
     description |-> SwitchDescription(first.primary_language, second.primary_language),
     confidence |-> F64Div(F64Add(first.confidence, second.confidence), 2)]

\* the CrossLanguagePattern pushed for a window of two events
LanguageSwitch(first, second) ==
    [pattern_type |-> "LanguageSwitch",
     languages |-> <<first.primary_language, second.primary_language>>,
     description |-> SwitchDescription(first.primary_language, second.primary_language),
     confidence |-> F64Div(F64Add(first.confidence, second.confidence), 2)]

RECURSIVE LanguageSwitches(_)
\* pattern 1: for window in events.windows(2) { if the primaries differ, push }
LanguageSwitches(events) ==
    IF Len(events) < 2 THEN <<>>
    ELSE (IF events[1].primary_language # events[2].primary_language
          THEN <<LanguageSwitch(events[1], events[2])>> ELSE <<>>)
         \o LanguageSwitches(Tail(events))

RECURSIVE MultilingualEvents(_)
\* events.iter().filter(|e| e.is_multilingual()).collect()
MultilingualEvents(events) ==
    IF events = <<>> THEN <<>>
    ELSE (IF IsMultilingual(Head(events)) THEN <<Head(events)>> ELSE <<>>)
         \o MultilingualEvents(Tail(events))

RECURSIVE SumConfidence(_)
SumConfidence(events) ==
    IF events = <<>> THEN F64Zero
    ELSE F64Add(SumConfidence(SubSeq(events, 1, Len(events) - 1)),
                events[Len(events)].confidence)

\* the languages of the multilingual events, as a set
ReasoningLanguages(events) ==
    UNION {Range(AllLanguagesOf(MultilingualEvents(events)[k])) :
                k \in 1..Len(MultilingualEvents(events))}

\* mutant: the pattern is pushed for 2 multilingual events already
MultilingualReasoningFromTwo(events, languages) ==
    LET multilingual_events == MultilingualEvents(events)
    IN  IF Len(multilingual_events) >= 2
        THEN <<[pattern_type |-> "MultilingualReasoning",
                languages |-> languages,
                description |-> ReasoningDescription(Len(multilingual_events)),
                confidence |-> F64Div(SumConfidence(multilingual_events),
                                      Len(multilingual_events))]>>
        ELSE <<>>

\* pattern 2: one MultilingualReasoning if more than 2 events are
\* multilingual; languages is the iteration order of a HashSet
MultilingualReasoning(events, languages) ==
    LET multilingual_events == MultilingualEvents(events)
    IN  IF Len(multilingual_events) > 2
        THEN <<[pattern_type |-> "MultilingualReasoning",
                languages |-> languages,
                description |-> ReasoningDescription(Len(multilingual_events)),
                confidence |-> F64Div(SumConfidence(multilingual_events),
                                      Len(multilingual_events))]>>
        ELSE <<>>

\* MultilingualMemoryFolder::detect_cross_language_patterns
DetectCrossLanguagePatterns(events, languages) ==
    LanguageSwitches(events) \o MultilingualReasoning(events, languages)


\* secondary languages given to one event
MaxSecondary == 1

\* events.push(LanguageAwareAgentEvent::new(...))
PushAgentEvent(agent_type, input, output, primary_language, confidence) ==
    /\ agent_events' = Append(agent_events,
                              NewAgentEvent(agent_type, input, output, primary_language, confidence))
    /\ UNCHANGED <<now, traces, digests, stats, added, leaderboard, returned>>

\* add_secondary_language(language) on the event built last
AddSecondaryLanguage(language) ==
    /\ agent_events # <<>>
    /\ ~Contains(AllLanguagesOf(agent_events[Len(agent_events)]), language)
    /\ agent_events' = [agent_events EXCEPT ![Len(agent_events)] =
                            AddSecondaryLanguageOn(@, language)]
    /\ UNCHANGED <<now, traces, digests, stats, added, leaderboard, returned>>

\* let patterns = folder.detect_cross_language_patterns(&agent_events): the
\* events are only read
DetectPatterns(languages) ==
    /\ languages \in IterationOrders(ReasoningLanguages(agent_events))
    /\ returned' = Some([call |-> "detect_cross_language_patterns", self |-> agent_events,
                         value |-> DetectCrossLanguagePatterns(agent_events, languages)])
    /\ UNCHANGED <<now, traces, digests, ledgerVars>>

\* the primary language and confidence of the events of SpecPatterns
AgentEventArgs == {<<EN, F64(9, 10)>>, <<ID, F64(22, 25)>>}

InitFolder ==
    /\ now = ClockAt(0)
    /\ traces = <<>>
    /\ digests = <<>>
    /\ stats = <<>>
    /\ added = <<>>
    /\ leaderboard = NewLeaderboard
    /\ agent_events = <<>>
    /\ returned = None

PushAny ==
    \E a \in AgentEventArgs :
        /\ Len(agent_events) < MaxAgentEvents
        /\ PushAgentEvent(<<"E">>, <<"q">>, <<"r">>, a[1], a[2])

AddSecondaryAny ==
    \E language \in {ES} :
        /\ agent_events # <<>>
        /\ Len(agent_events[Len(agent_events)].secondary_languages) < MaxSecondary
        /\ AddSecondaryLanguage(language)

DetectAny ==
    \E languages \in IterationOrders(ReasoningLanguages(agent_events)) :
        DetectPatterns(languages)

NextPatterns ==
    \/ PushAny
    \/ AddSecondaryAny
    \/ DetectAny

\* SpecPatterns: a slice of language-aware events built and searched for patterns
SpecPatterns == InitFolder /\ [][NextPatterns]_vars

IsLanguageSwitch(pattern) == pattern.pattern_type = "LanguageSwitch"

RECURSIVE SwitchIndices(_, _)
\* the k >= from, in ascending order, at which events k and k + 1 differ in
\* primary language
SwitchIndices(events, from) ==
    IF from >= Len(events) THEN <<>>
    ELSE (IF events[from].primary_language # events[from + 1].primary_language
          THEN <<from>> ELSE <<>>)
         \o SwitchIndices(events, from + 1)

\* C20: pattern detection emits one LanguageSwitch per adjacent pair of events
\* whose primary languages differ, in sequence order and not deduplicated, and
\* none for any other pair; its languages are the two primaries in order, its
\* confidence the mean of the pair's confidences (0.9 and 0.88 give 0.89).
C20_LanguageSwitchPatterns ==
    (returned # None /\ returned[1].call = "detect_cross_language_patterns") =>
        LET events == returned[1].self
            switches == SelectSeq(returned[1].value, IsLanguageSwitch)
            at == SwitchIndices(events, 1)
        IN  /\ Len(switches) = Len(at)
            /\ IsPrefix(switches, returned[1].value)
            /\ \A j \in 1..Len(at) :
                LET first == events[at[j]]
                    second == events[at[j] + 1]
                IN  /\ switches[j].languages = <<first.primary_language, second.primary_language>>
                    /\ IsMeanOfTwo(switches[j].confidence, first.confidence, second.confidence)
                    /\ ({first.confidence, second.confidence} = {F64(9, 10), F64(88, 100)}
                            => switches[j].confidence = F64(89, 100))

C20_Witness ==
    /\ returned # None
    /\ returned[1].call = "detect_cross_language_patterns"
    /\ Len(returned[1].self) = 4
    /\ returned[1].self[2].primary_language = returned[1].self[3].primary_language
    /\ Len(SelectSeq(returned[1].value, IsLanguageSwitch)) = 2
    /\ returned[1].value[1].languages = <<EN, ID>>
    /\ returned[1].value[1].confidence = F64(89, 100)
    /\ returned[1].value[2].languages = <<ID, EN>>
    /\ Len(returned[1].value) = 3


IsMultilingualReasoning(pattern) == pattern.pattern_type = "MultilingualReasoning"

\* the indices of the events that have a secondary language
MultilingualIndices(events) ==
    {k \in 1..Len(events) : events[k].secondary_languages # <<>>}

RECURSIVE ConfidenceTotal(_, _)
\* the sum of the confidences of the events at the indices
ConfidenceTotal(events, indices) ==
    IF indices = {} THEN F64Zero
    ELSE LET k == CHOOSE m \in indices : TRUE
         IN  F64Add(events[k].confidence, ConfidenceTotal(events, indices \ {k}))

\* C21: pattern detection emits a MultilingualReasoning pattern at most once,
\* and exactly when more than 2 events are multilingual; its confidence is the
\* mean confidence of the multilingual events and its languages are the
\* distinct union of their primary and secondary languages.
C21_MultilingualReasoningPattern ==
    (returned # None /\ returned[1].call = "detect_cross_language_patterns") =>
        LET events == returned[1].self
            found == SelectSeq(returned[1].value, IsMultilingualReasoning)
            multi == MultilingualIndices(events)
            total == ConfidenceTotal(events, multi)
        IN  /\ Len(found) <= 1
            /\ Len(found) = 1 <=> Cardinality(multi) > 2
            /\ Len(found) = 1 =>
                /\ found[1].confidence[1] * total[2] * Cardinality(multi)
                        = total[1] * found[1].confidence[2]
                /\ NoDuplicates(found[1].languages)
                /\ Range(found[1].languages) =
                        UNION {{events[k].primary_language} \cup Range(events[k].secondary_languages) :
                                    k \in multi}

C21_Witness ==
    /\ returned # None
    /\ returned[1].call = "detect_cross_language_patterns"
    /\ Len(returned[1].self) = 4
    /\ Cardinality(MultilingualIndices(returned[1].self)) = 3
    /\ returned[1].self[2].secondary_languages = <<>>
    /\ Len(SelectSeq(returned[1].value, IsMultilingualReasoning)) = 1
    /\ returned[1].value[Len(returned[1].value)].languages = <<ES, EN, ID>>
    /\ returned[1].value[Len(returned[1].value)].confidence = F64(67, 75)


----------------------------------------------------------------------------
(* MultilingualMemoryFolder::fold_memory *)

\* events in the slice folded in SpecFolder
MaxFolderEvents == 4

\* the characters of a text kept in a key insight
InsightChars == 50

\* the score below which a translation is problematic
ProblematicBelow == F64(7, 10)

\* the confidence above which an event is a key insight
InsightConfidence == F64(8, 10)

RECURSIVE Join(_, _)
\* Vec<String>::join(sep)
Join(strings, sep) ==
    IF strings = <<>> THEN <<>>
    ELSE IF Len(strings) = 1 THEN strings[1]
    ELSE strings[1] \o sep \o Join(Tail(strings), sep)

\* s.chars().take(n).collect::<String>()
TakeChars(s, n) == SubSeq(s, 1, IF n < Len(s) THEN n ELSE Len(s))

\* mutant: an event of confidence exactly 0.8 is kept too
IsKeyInsightInclusive(event) ==
    ~F64Lt(event.confidence, InsightConfidence) \/ IsMultilingual(event)

\* the filter of extract_key_insights
IsKeyInsight(event) ==
    F64Gt(event.confidence, InsightConfidence) \/ IsMultilingual(event)

\* the map of extract_key_insights: the insight text of an event
InsightText(event) ==
    IF IsMultilingual(event)
    THEN <<"[", "M", "u", "l", "t", "i", "l", "i", "n", "g", "u", "a", "l", " ">>
            \o Join(AllLanguagesOf(event), <<"+">>) \o <<"]", " ">>
            \o event.agent_type \o <<":", " ">>
            \o TakeChars(event.input, InsightChars) \o <<" ", "-", ">", " ">>
            \o TakeChars(event.output, InsightChars)
    ELSE <<"[">> \o event.primary_language \o <<"]", " ">>
            \o event.agent_type \o <<":", " ">>
            \o TakeChars(event.output, InsightChars)

RECURSIVE ExtractKeyInsights(_)
\* MultilingualMemoryFolder::extract_key_insights
ExtractKeyInsights(events) ==
    IF events = <<>> THEN <<>>
    ELSE (IF IsKeyInsight(Head(events)) THEN <<InsightText(Head(events))>> ELSE <<>>)
         \o ExtractKeyInsights(Tail(events))

\* the times x occurs in seq
CountOf(seq, x) == Cardinality({m \in 1..Len(seq) : seq[m] = x})

RECURSIVE TouchCount(_, _)
\* *distribution.entry(lang).or_insert(0) += 1, over all events
TouchCount(events, lang) ==
    IF events = <<>> THEN 0
    ELSE CountOf(AllLanguagesOf(Head(events)), lang) + TouchCount(Tail(events), lang)

\* MultilingualMemoryFolder::compute_language_distribution
ComputeLanguageDistribution(events) ==
    LET touched == UNION {Range(AllLanguagesOf(events[k])) : k \in 1..Len(events)}
    IN  [lang \in touched |-> TouchCount(events, lang)]

\* format!("{}-{}", from, to)
PairLabel(from, to) == from \o <<"-">> \o to

\* mutant: the prior event's input is passed in place of its output
AlignArgsOfInputs(first, second) ==
    [text_a |-> first.input, text_b |-> second.input,
     lang_a |-> first.primary_language, lang_b |-> second.primary_language]

\* the arguments of self.aligner.align for the window (first, second)
AlignArgs(first, second) ==
    [text_a |-> first.output, text_b |-> second.input,
     lang_a |-> first.primary_language, lang_b |-> second.primary_language]

\* MultilingualAligner::align as the folder sees it: the result's
\* overall_score is what the aligner answers for this call
Align(args, overall_score) == [overall_score |-> overall_score]

\* the state of the loop of compute_translation_summary
NoTranslations ==
    [total_translations |-> 0, quality_sum |-> F64Zero, language_pairs |-> <<>>,
     problematic_translations |-> 0, calls |-> <<>>]

\* mutant: a score of exactly 0.7 is counted as problematic
TranslateWindowInclusive(acc, first, second, overall_score) ==
    LET alignment == Align(AlignArgs(first, second), overall_score)
        pair == PairLabel(first.primary_language, second.primary_language)
    IN  [total_translations |-> acc.total_translations + 1,
         quality_sum |-> F64Add(acc.quality_sum, alignment.overall_score),
         language_pairs |-> IF ~Contains(acc.language_pairs, pair)
                            THEN Append(acc.language_pairs, pair) ELSE acc.language_pairs,
         problematic_translations |->
            IF ~F64Gt(alignment.overall_score, ProblematicBelow)
            THEN acc.problematic_translations + 1 ELSE acc.problematic_translations,
         calls |-> Append(acc.calls, AlignArgs(first, second))]

\* the body of the loop for a window whose primary languages differ
TranslateWindow(acc, first, second, overall_score) ==
    LET alignment == Align(AlignArgs(first, second), overall_score)
        pair == PairLabel(first.primary_language, second.primary_language)
    IN  [total_translations |-> acc.total_translations + 1,
         quality_sum |-> F64Add(acc.quality_sum, alignment.overall_score),
         language_pairs |-> IF ~Contains(acc.language_pairs, pair)
                            THEN Append(acc.language_pairs, pair) ELSE acc.language_pairs,
         problematic_translations |->
            IF F64Lt(alignment.overall_score, ProblematicBelow)
            THEN acc.problematic_translations + 1 ELSE acc.problematic_translations,
         calls |-> Append(acc.calls, AlignArgs(first, second))]

RECURSIVE TranslationLoop(_, _, _)
\* for window in events.windows(2) { ... }; scores are the aligner's answers
\* to the successive calls
TranslationLoop(acc, events, scores) ==
    IF Len(events) < 2 THEN acc
    ELSE IF events[1].primary_language # events[2].primary_language
         THEN TranslationLoop(TranslateWindow(acc, events[1], events[2], Head(scores)),
                              Tail(events), Tail(scores))
         ELSE TranslationLoop(acc, Tail(events), scores)

\* MultilingualMemoryFolder::compute_translation_summary, with the calls it made
ComputeTranslationSummary(events, scores) ==
    LET done == TranslationLoop(NoTranslations, events, scores)
    IN  [total_translations |-> done.total_translations,
         average_quality |-> IF done.total_translations > 0
                             THEN F64Div(done.quality_sum, done.total_translations)
                             ELSE F64(1, 1),
         language_pairs |-> done.language_pairs,
         problematic_translations |-> done.problematic_translations,
         calls |-> done.calls]


RECURSIVE AlignmentScores(_)
\* events.iter().filter_map(|e| e.alignment_score).collect()
AlignmentScores(events) ==
    IF events = <<>> THEN <<>>
    ELSE Head(events).alignment_score \o AlignmentScores(Tail(events))

RECURSIVE SumScores(_)
SumScores(scores) ==
    IF scores = <<>> THEN F64Zero
    ELSE F64Add(SumScores(SubSeq(scores, 1, Len(scores) - 1)), scores[Len(scores)])

\* MultilingualMemoryFolder::calculate_overall_alignment
CalculateOverallAlignment(events) ==
    LET alignment_scores == AlignmentScores(events)
    IN  IF alignment_scores = <<>> THEN F64(1, 1)
        ELSE F64Div(SumScores(alignment_scores), Len(alignment_scores))

\* (key_insights.len() as f64) / (total_events as f64): 0.0 / 0.0 is a NaN
CompressionRatio(key_insights, total_events) == F64(Len(key_insights), total_events)

\* MultilingualMemoryFolder::fold_memory: the fold returned
FolderFoldMemory(trace_id, events, languages, scores) ==
    LET total_events == Len(events)
        key_insights == ExtractKeyInsights(events)
        translation_summary == ComputeTranslationSummary(events, scores)
    IN  [trace_id |-> trace_id,
         total_events |-> total_events,
         key_insights |-> key_insights,
         language_distribution |-> ComputeLanguageDistribution(events),
         cross_language_patterns |-> DetectCrossLanguagePatterns(events, languages),
         translation_summary |->
            [total_translations |-> translation_summary.total_translations,
             average_quality |-> translation_summary.average_quality,
             language_pairs |-> translation_summary.language_pairs,
             problematic_translations |-> translation_summary.problematic_translations],
         compression_ratio |-> CompressionRatio(key_insights, total_events),
         overall_alignment |-> CalculateOverallAlignment(events)]

\* the adjacent pairs of events that differ in primary language
SwitchCount(events) ==
    Cardinality({k \in 1..Len(events) - 1 :
                    events[k].primary_language # events[k + 1].primary_language})

\* let fold = folder.fold_memory(trace_id, &agent_events); calls are the
\* arguments of the align calls made meanwhile, scores the overall scores
\* the aligner answered
FoldEvents(trace_id, languages, scores) ==
    /\ languages \in IterationOrders(ReasoningLanguages(agent_events))
    /\ Len(scores) = SwitchCount(agent_events)
    /\ returned' = Some([call |-> "folder.fold_memory", self |-> agent_events,
                         scores |-> scores,
                         calls |-> ComputeTranslationSummary(agent_events, scores).calls,
                         value |-> FolderFoldMemory(trace_id, agent_events, languages, scores)])
    /\ UNCHANGED <<now, traces, digests, ledgerVars>>

\* the overall scores the aligner answers: below, at and above 0.7
AlignScoreArgs == {F64(1, 2), F64(7, 10), F64(9, 10)}

\* the primary language and confidence of the events of SpecFolder
FolderEventArgs == {<<EN, F64(9, 10)>>, <<ID, F64(8, 10)>>}

\* the slice is built before it is folded; the k-th event reads "ik" and
\* writes "ok"
PushText ==
    \E a \in FolderEventArgs :
        /\ returned = None
        /\ Len(agent_events) < MaxFolderEvents
        /\ PushAgentEvent(<<"E">>, <<"i">> \o DecStr(Len(agent_events) + 1),
                          <<"o">> \o DecStr(Len(agent_events) + 1), a[1], a[2])

AddSecondaryText ==
    /\ returned = None
    /\ AddSecondaryAny

\* the slice is folded once
FoldAny ==
    \E languages \in IterationOrders(ReasoningLanguages(agent_events)) :
        \E scores \in [1..SwitchCount(agent_events) -> AlignScoreArgs] :
            /\ returned = None
            /\ FoldEvents(<<"t">>, languages, scores)

NextFolder ==
    \/ PushText
    \/ AddSecondaryText
    \/ FoldAny

\* SpecFolder: a slice of language-aware events built and folded
SpecFolder == InitFolder /\ [][NextFolder]_vars


\* the last call was a fold of the folder
Folded == returned # None /\ returned[1].call = "folder.fold_memory"

\* C22: during one fold the aligner is called once for each adjacent pair of
\* events whose primary languages differ, never for another pair, in sequence
\* order, with (prior output, next input, prior primary, next primary);
\* total_translations is the number of such pairs and of LanguageSwitch
\* patterns of the fold.
C22_AlignerCalledPerSwitch ==
    Folded =>
        LET events == returned[1].self
            calls == returned[1].calls
            fold == returned[1].value
            at == SwitchIndices(events, 1)
        IN  /\ Len(calls) = Len(at)
            /\ \A j \in 1..Len(at) :
                /\ calls[j].text_a = events[at[j]].output
                /\ calls[j].text_b = events[at[j] + 1].input
                /\ calls[j].lang_a = events[at[j]].primary_language
                /\ calls[j].lang_b = events[at[j] + 1].primary_language
            /\ fold.translation_summary.total_translations = Len(at)
            /\ Len(SelectSeq(fold.cross_language_patterns, IsLanguageSwitch)) = Len(at)

C22_Witness ==
    /\ Folded
    /\ Len(returned[1].self) = 3
    /\ returned[1].self[1].primary_language = returned[1].self[2].primary_language
    /\ returned[1].self[2].output # returned[1].self[3].output
    /\ returned[1].self[2].input # returned[1].self[2].output
    /\ Len(returned[1].calls) = 1
    /\ returned[1].calls[1].text_a = returned[1].self[2].output
    /\ returned[1].value.translation_summary.total_translations = 1


\* the scores of seq that are below the threshold
BelowCount(seq, threshold) ==
    Cardinality({k \in 1..Len(seq) : seq[k][1] * threshold[2] < threshold[1] * seq[k][2]})

\* C23: average_quality is 1.0 when no adjacent pair differs in primary
\* language and else the mean of the overall scores returned for those pairs;
\* problematic_translations counts the pairs scored strictly below 0.7 and is
\* at most total_translations; language_pairs holds each label "from-to" once.
C23_TranslationSummary ==
    Folded =>
        LET events == returned[1].self
            scores == returned[1].scores
            summary == returned[1].value.translation_summary
            at == SwitchIndices(events, 1)
            total == SumScores(scores)
            labels == {events[at[j]].primary_language \o <<"-">>
                            \o events[at[j] + 1].primary_language : j \in 1..Len(at)}
        IN  /\ Len(at) = 0 => summary.average_quality = F64(1, 1)
            /\ Len(at) > 0 =>
                summary.average_quality[1] * total[2] * Len(at)
                    = total[1] * summary.average_quality[2]
            /\ summary.problematic_translations = BelowCount(scores, F64(7, 10))
            /\ summary.problematic_translations <= summary.total_translations
            /\ NoDuplicates(summary.language_pairs)
            /\ Range(summary.language_pairs) = labels

C23_Witness ==
    /\ Folded
    /\ returned[1].scores = <<F64(7, 10), F64(1, 2), F64(9, 10)>>
    /\ returned[1].value.translation_summary.problematic_translations = 1
    /\ returned[1].value.translation_summary.average_quality = F64(7, 10)
    /\ returned[1].value.translation_summary.language_pairs
            = <<<<"e", "n", "-", "i", "d">>, <<"i", "d", "-", "e", "n">>>>


\* C24: fold_memory of the folder returns compression_ratio = |key insights|
\* / |total events|, and 0.0 for a call with zero events.
C24_CompressionRatio ==
    Folded =>
        LET fold == returned[1].value
        IN  /\ fold.total_events = Len(returned[1].self)
            /\ fold.total_events > 0 =>
                fold.compression_ratio[1] * fold.total_events
                    = Len(fold.key_insights) * fold.compression_ratio[2]
            /\ fold.total_events = 0 => fold.compression_ratio = F64Zero


RECURSIVE RetainedIndices(_, _)
\* the k >= from, ascending, whose event has a confidence above 0.8 or a
\* secondary language
RetainedIndices(events, from) ==
    IF from > Len(events) THEN <<>>
    ELSE (IF \/ events[from].confidence[1] * 10 > 8 * events[from].confidence[2]
             \/ events[from].secondary_languages # <<>>
          THEN <<from>> ELSE <<>>)
         \o RetainedIndices(events, from + 1)

\* C26: the key insights are those of exactly the events with confidence
\* strictly above 0.8 or with a secondary language, one each, in input order;
\* so they are no more than the events, and compression_ratio is at most 1
\* for a non-empty slice.
C26_KeyInsights ==
    Folded =>
        LET events == returned[1].self
            fold == returned[1].value
            kept == RetainedIndices(events, 1)
        IN  /\ Len(fold.key_insights) = Len(kept)
            /\ \A j \in 1..Len(kept) : fold.key_insights[j] = InsightText(events[kept[j]])
            /\ Len(fold.key_insights) <= Len(events)
            /\ Len(events) > 0 =>
                /\ fold.compression_ratio[2] > 0
                /\ fold.compression_ratio[1] <= fold.compression_ratio[2]

C26_Witness ==
    /\ Folded
    /\ Len(returned[1].self) = 4
    /\ returned[1].self[1].confidence = F64(8, 10)
    /\ returned[1].self[1].secondary_languages = <<>>
    /\ returned[1].self[2].confidence = F64(8, 10)
    /\ returned[1].self[2].secondary_languages # <<>>
    /\ returned[1].self[3].confidence = F64(9, 10)
    /\ returned[1].self[4].confidence = F64(8, 10)
    /\ returned[1].value.key_insights =
        <<<<"[", "M", "u", "l", "t", "i", "l", "i", "n", "g", "u", "a", "l", " ",
            "i", "d", "+", "e", "s", "]", " ", "E", ":", " ", "i", "2", " ", "-", ">", " ", "o", "2">>,
          <<"[", "e", "n", "]", " ", "E", ":", " ", "o", "3">>>>
    /\ returned[1].value.compression_ratio = F64(1, 2)


----------------------------------------------------------------------------
(* detect_cross_language_patterns and the text of the events *)

\* the input and output texts given to an event in place of its own
OtherTexts == {<<<<"q">>, <<"r">>>>, <<<<"z">>, <<>>>>}

\* the events with input and output replaced, event k by texts[k]; language
\* metadata and confidence are kept
WithTexts(events, texts) ==
    [k \in 1..Len(events) |->
        [events[k] EXCEPT !.input = texts[k][1], !.output = texts[k][2]]]

\* (type, languages, confidence) of each pattern of a list
PatternFacts(patterns) ==
    [k \in 1..Len(patterns) |->
        <<patterns[k].pattern_type, patterns[k].languages, patterns[k].confidence>>]

\* with the HashSet of the second pattern iterated in one given order, the
\* patterns of a slice are the patterns of every slice that differs from it
\* in input and output text only
PatternsIgnoreTextGivenOrder ==
    (returned # None /\ returned[1].call = "detect_cross_language_patterns") =>
        LET events == returned[1].self
        IN  \A texts \in [1..Len(events) -> OtherTexts] :
                /\ ReasoningLanguages(WithTexts(events, texts)) = ReasoningLanguages(events)
                /\ \A languages \in IterationOrders(ReasoningLanguages(events)) :
                        DetectCrossLanguagePatterns(WithTexts(events, texts), languages)
                            = DetectCrossLanguagePatterns(events, languages)

\* C27: the detected patterns depend only on the language metadata and the
\* confidences of the events: every detection on a slice that agrees with the
\* searched one on primary language, secondary languages and confidence of
\* every event, whatever its input and output texts, gives the same list of
\* (type, languages, confidence).
C27_PatternsIgnoreText ==
    (returned # None /\ returned[1].call = "detect_cross_language_patterns") =>
        LET events == returned[1].self
        IN  \A texts \in [1..Len(events) -> OtherTexts] :
                \A languages \in IterationOrders(ReasoningLanguages(WithTexts(events, texts))) :
                    PatternFacts(DetectCrossLanguagePatterns(WithTexts(events, texts), languages))
                        = PatternFacts(returned[1].value)


----------------------------------------------------------------------------
(* get_top_n and the iteration order of the map *)

\* the contributor ids of a ranking, in order
EntryIds(entries) == [k \in 1..Len(entries) |-> entries[k].contributor_id]

\* a ledger of the same contents whose map iterates in the given order
Reordered(board, order) == [board EXCEPT !.order = order]

\* C28: get_top_n returns, for the same ledger contents, n and criterion, the
\* same sequence of contributor ids on every call, also when contributors
\* score equal: the order of ties does not follow the iteration order of the
\* map.
C28_TopNOrderOfTies ==
    (returned # None /\ returned[1].call = "get_top_n") =>
        \A order \in IterationOrders(DOMAIN returned[1].self.contributors) :
            EntryIds(GetTopN(Reordered(returned[1].self, order), returned[1].n,
                             returned[1].criteria).entries)
                = EntryIds(returned[1].value.entries)

\* the ranking of a ledger without equal scores under the criterion is the
\* same for every iteration order of the map
TopNOfDistinctScores ==
    (returned # None /\ returned[1].call = "get_top_n") =>
        LET board == returned[1].self
            score(id) == GetScore(board.contributors[id], returned[1].criteria)
        IN  \/ \E a, b \in DOMAIN board.contributors :
                    a # b /\ ~F64Lt(score(a), score(b)) /\ ~F64Gt(score(a), score(b))
            \/ \A order \in IterationOrders(DOMAIN board.contributors) :
                    GetTopN(Reordered(board, order), returned[1].n, returned[1].criteria)
                        = returned[1].value


----------------------------------------------------------------------------
(* add_trace and the proficiency map *)

\* the proficiency map after one blend of the uniqueness into every language
\* of the list, the others as they were
BlendedOnce(old, languages, uniqueness) ==
    [l \in DOMAIN old \cup Range(languages) |->
        IF l \in Range(languages)
        THEN F64Div(F64Add(IF l \in DOMAIN old THEN old[l] ELSE F64Zero, uniqueness), 2)
        ELSE old[l]]

\* an add_trace whose language list names no language twice blends the
\* uniqueness once into the proficiency of each of its languages
ProficiencyBlendOfDistinctLanguages ==
    [][\A a \in TraceArgs :
            (/\ NoDuplicates(a.languages)
             /\ AddTrace(1, a.depth, a.uniqueness, a.serendipity, a.languages,
                         a.alignment_score, a.translation_quality)) =>
                stats'[1].language_proficiency =
                    BlendedOnce(stats[1].language_proficiency, a.languages, a.uniqueness)]_vars

\* C29: add_trace sets the proficiency of each language the trace used to
\* (old_or_zero + uniqueness) / 2, the blend applied exactly once per trace
\* and language, and leaves the proficiency of every language that is not in
\* the trace's language list unchanged.
C29_ProficiencyBlendOncePerTrace ==
    [][\A a \in TraceArgs :
            AddTrace(1, a.depth, a.uniqueness, a.serendipity, a.languages,
                     a.alignment_score, a.translation_quality) =>
                stats'[1].language_proficiency =
                    BlendedOnce(stats[1].language_proficiency, a.languages, a.uniqueness)]_vars


----------------------------------------------------------------------------
(* The statistics object in every reachable state *)

\* the f64 is a number of [0, 1]
InUnitInterval(x) == ~IsNaN(x) /\ ~F64Lt(x, F64Zero) /\ ~F64Gt(x, F64(1, 1))

\* C30: in every state of a statistics object reachable from new() by
\* add_trace, add_discovery and add_expertise_domain, multilingual_traces is
\* at most total_traces, cross_language_expertise lies in [0, 1],
\* languages_used holds no language twice, and the keys of
\* language_proficiency are the languages of languages_used.
C30_StatsInvariants ==
    \A i \in 1..Len(stats) :
        /\ stats[i].multilingual_traces <= stats[i].total_traces
        /\ InUnitInterval(stats[i].cross_language_expertise)
        /\ NoDuplicates(stats[i].languages_used)
        /\ DOMAIN stats[i].language_proficiency = Range(stats[i].languages_used)

\* three traces, of one language, of the same language twice and of eleven
\* others, and a discovery: two of the three count as multilingual and the
\* twelve languages used are kept once each
C30_Witness ==
    /\ Len(added[1]) = 3
    /\ \E k \in 1..3 : added[1][k].languages = <<EN>>
    /\ \E k \in 1..3 : added[1][k].languages = <<EN, EN>>
    /\ \E k \in 1..3 : added[1][k].languages = ManyLanguages
    /\ stats[1].total_traces = 3
    /\ stats[1].multilingual_traces = 2
    /\ Len(stats[1].languages_used) = 12
    /\ Cardinality(DOMAIN stats[1].language_proficiency) = 12
    /\ stats[1].cross_language_expertise = F64(2, 3)
    /\ Len(stats[1].discoveries) = 1

====
